---------------------------- MODULE Spec2Model ----------------------------
(***************************************************************************)
(* A model of aws-secrets-manager-tools: the provenance selection engine   *)
(* (provenanceSelectors.ts), the env-map secret wrapper                    *)
(* (AwsSecretsManagerTools.ts), the payload size guard (commandUtils) and  *)
(* the push / delete command actions of the secrets plugin.                *)
(*                                                                         *)
(* JavaScript values are tagged records, so that values of different       *)
(* JavaScript types can be compared:                                       *)
(*   Undefined               the value undefined                           *)
(*   Str(u, n)               the string made of n copies of the unit u, so *)
(*                           that a 65 536 character value is one small    *)
(*                           record; object keys are such strings too      *)
(* Env maps (ProcessEnv) are functions from a finite set of own keys.      *)
(***************************************************************************)
EXTENDS Integers, Sequences, FiniteSets, TLC

VARIABLES
    pc,             \* position of the selection caller: "ready" | "done"
    dotenv,         \* ctx.dotenv: key -> string | undefined
    provenance,     \* ctx.dotenvProvenance: key -> history (oldest first)
    selectors,      \* the parsed --from selectors, in order
    selected,       \* the EnvSecretMap returned by selectEnvByProvenance
    payload,        \* the argument of assertBytesWithinSecretsManagerLimit
    guardResult,    \* its outcome: a return or a throw
    err,            \* a value caught by upsertEnvSecret
    classified,     \* isResourceNotFoundError of err, and of err with
                    \* another message
    store,          \* the secret store: secret id -> secret | absent
    proc,           \* the callers of the secret manager: the operation
                    \* each is in, the requests it sent and its result
    ctx,            \* the get-dotenv context of the push command
    gate,           \* the X-Ray gate: a call of it and what the call did,
                    \* or a client and the gate runs made on its behalf
    fn              \* one application of a pure function: its arguments
                    \* and its result

selVars == <<pc, dotenv, provenance, selectors, selected>>
guardVars == <<payload, guardResult>>
errVars == <<err, classified>>
mgrVars == <<store, proc>>
cliVars == <<ctx>>
xrayVars == <<gate>>
fnVars == <<fn>>

vars == <<selVars, guardVars, errVars, mgrVars, cliVars, xrayVars, fnVars>>

----------------------------------------------------------------------------
(* Bounds of the model *)

MaxHist == 2        \* longest provenance history of a key
MaxSel == 2         \* longest selector list
Slack == 3          \* payload sizes are tried this far either side of the limit
MaxToks == 3        \* longest secret body written token by token
MaxPieces == 4       \* most colon-separated pieces of a selector text
MaxEntries == 2     \* most members of a document in a secret body

----------------------------------------------------------------------------
(* JavaScript values *)

Undefined == [t |-> "undefined"]

\* n copies of the unit u. A unit is literal ASCII text, or one of the
\* named characters of NamedUnits.
Str(u, n) == [t |-> "string", u |-> u, n |-> n]

EmptyStr == Str("", 0)

Has(r, f) == f \in DOMAIN r

\* obj[key] of JavaScript: undefined when key is not an own key.
Get(obj, key) == IF key \in DOMAIN obj THEN obj[key] ELSE Undefined

SeqsUpTo(S, n) == UNION {[1..i -> S] : i \in 0..n}

Null == [t |-> "null"]
Num == [t |-> "number"]
NumV(n) == [t |-> "number", v |-> n]
NaN == [t |-> "number", nan |-> TRUE]
Bool(b) == [t |-> "boolean", b |-> b]
Arr(items) == [t |-> "array", items |-> items]
\* A parsed object keeps its entries in insertion order, as Object.entries
\* reports them (no key of the model is integer-like).
Obj(entries) == [t |-> "object", entries |-> entries]

NoResult == [t |-> "none"]
Return(v) == [t |-> "return", v |-> v]
Throw(e) == [t |-> "throw", err |-> e]

\* new Error(message)
Error(message) == [t |-> "error", name |-> Str("Error", 1),
                   code |-> Undefined, Code |-> Undefined, message |-> message]

\* typeof v
TypeOf(v) ==
    IF v.t \in {"null", "array", "object", "error"} THEN "object" ELSE v.t

\* A string is empty when it has no characters.
IsEmptyString(v) ==
    /\ v.t = "string"
    /\ IF Has(v, "toks") THEN v.toks = <<>> ELSE v.n = 0

\* !v for the values of the model.
Falsy(v) ==
    \/ v = Undefined
    \/ v = Null
    \/ IsEmptyString(v)
    \/ v = Bool(FALSE)
    \/ v = NumV(0)
    \/ v = NaN

\* The left operand of ?? is replaced when it is null or undefined.
Nullish(v) == v = Undefined \/ v = Null

----------------------------------------------------------------------------
(* awsError *)

ResourceNotFoundException == Str("ResourceNotFoundException", 1)

\* A variant that also reads the message.
getAwsErrorCode_message(e) ==
    IF Falsy(e) \/ TypeOf(e) # "object" THEN Undefined
    ELSE LET code == IF ~Nullish(e.name) /\ e.name # Str("Error", 1)
                     THEN e.name ELSE e.message
         IN  IF code.t = "string" THEN code ELSE Undefined

getAwsErrorCode(e) ==
    IF Falsy(e) \/ TypeOf(e) # "object" THEN Undefined
    ELSE LET code == IF ~Nullish(e.name) THEN e.name
                     ELSE IF ~Nullish(e.code) THEN e.code
                     ELSE e.Code
         IN  IF code.t = "string" THEN code ELSE Undefined

isAwsErrorCode(e, code) == getAwsErrorCode(e) = code

isResourceNotFoundError(e) == isAwsErrorCode(e, ResourceNotFoundException)

----------------------------------------------------------------------------
(* JSON text. A text is the sequence of its tokens; white space is a token *)
(* of its own, so that the empty text and a blank text differ.             *)

Punct(ch) == [tok |-> "punct", ch |-> ch]
LBrace == Punct("{")
RBrace == Punct("}")
LBrack == Punct("[")
RBrack == Punct("]")
Colon == Punct(":")
Comma == Punct(",")
StrTok(str) == [tok |-> "string", s |-> str]
NullTok == [tok |-> "null"]
NumTok == [tok |-> "number"]       \* the literal 123
WordTok == [tok |-> "word"]        \* the characters not-json
WsTok == [tok |-> "ws"]            \* one blank

\* Characters that are not one byte in the serialized text.
NamedUnits == {"<quote>", "<e-acute>", "<euro>", "<emoji>"}

\* str.length of one unit, in UTF-16 code units.
UnitLength(u) ==
    IF u = "<emoji>" THEN 2 ELSE IF u \in NamedUnits THEN 1 ELSE Len(u)

\* Bytes of one unit inside a JSON string literal, encoded as UTF-8: the
\* quote is escaped to two characters, the others are copied.
UnitJsonBytes(u) ==
    CASE u = "<quote>" -> 2
      [] u = "<e-acute>" -> 2
      [] u = "<euro>" -> 3
      [] u = "<emoji>" -> 4
      [] OTHER -> Len(u)

TokBytes(tok) ==
    CASE tok.tok = "punct" -> 1
      [] tok.tok = "string" -> 2 + tok.s.n * UnitJsonBytes(tok.s.u)
      [] tok.tok = "null" -> 4
      [] tok.tok = "number" -> 3
      [] tok.tok = "word" -> 8
      [] tok.tok = "ws" -> 1

TokLength(tok) ==
    CASE tok.tok = "string" ->
            2 + tok.s.n * (IF tok.s.u = "<quote>" THEN 2
                           ELSE UnitLength(tok.s.u))
      [] OTHER -> TokBytes(tok)

RECURSIVE SumOver(_, _, _)
SumOver(F(_), seq, i) ==
    IF i > Len(seq) THEN 0 ELSE F(seq[i]) + SumOver(F, seq, i + 1)

\* The string whose characters are the tokens toks.
Text(toks) == [t |-> "string", toks |-> toks]

\* Buffer.byteLength(text, 'utf8')
byteLength(text) == SumOver(TokBytes, text.toks, 1)

\* text.length
textLength(text) == SumOver(TokLength, text.toks, 1)

\* The entries of an env map, in some fixed order.
RECURSIVE EntriesOf(_, _)
EntriesOf(m, ks) ==
    IF ks = {} THEN <<>>
    ELSE LET k == CHOOSE x \in ks : TRUE
         IN  <<[k |-> k, v |-> m[k]]>> \o EntriesOf(m, ks \ {k})

\* JSON.stringify of a value: an entry whose value is undefined is left out
\* of an object, an undefined array item is written as null.
RECURSIVE ValueText(_), MembersText(_, _), ItemsText(_, _)
ValueText(v) ==
    CASE v.t = "string" -> <<StrTok(v)>>
      [] v.t = "null" -> <<NullTok>>
      [] v.t = "number" -> <<NumTok>>
      [] v.t = "array" -> <<LBrack>> \o ItemsText(v.items, 1) \o <<RBrack>>
      [] v.t = "object" ->
            <<LBrace>> \o MembersText(v.entries, 1) \o <<RBrace>>

MembersText(entries, i) ==
    IF i > Len(entries) THEN <<>>
    ELSE LET rest == MembersText(entries, i + 1)
         IN  IF entries[i].v = Undefined THEN rest
             ELSE <<StrTok(entries[i].k), Colon>>
                  \o ValueText(entries[i].v)
                  \o (IF rest = <<>> THEN <<>> ELSE <<Comma>> \o rest)

ItemsText(items, i) ==
    IF i > Len(items) THEN <<>>
    ELSE (IF items[i] = Undefined THEN <<NullTok>>
          ELSE ValueText(items[i]))
         \o (IF i = Len(items) THEN <<>>
             ELSE <<Comma>> \o ItemsText(items, i + 1))

JSONstringify(v) == Text(ValueText(v))

\* toSecretString: JSON.stringify of an env map.
toSecretString(m) == JSONstringify(Obj(EntriesOf(m, DOMAIN m)))

\* obj[k] = v on the ordered entries of an object.
RECURSIVE PutEntry(_, _, _, _)
PutEntry(entries, k, v, i) ==
    IF i > Len(entries) THEN Append(entries, [k |-> k, v |-> v])
    ELSE IF entries[i].k = k THEN [entries EXCEPT ![i].v = v]
    ELSE PutEntry(entries, k, v, i + 1)

ParseFail == [ok |-> FALSE, v |-> Undefined, rest |-> <<>>]
ParseOk(v, rest) == [ok |-> TRUE, v |-> v, rest |-> rest]

\* The JSON grammar over tokens: a value, and what follows it.
RECURSIVE ParseValue(_), ParseMembers(_, _), ParseItems(_, _)
ParseValue(ts) ==
    IF ts = <<>> THEN ParseFail
    ELSE LET h == Head(ts)
             r == Tail(ts)
         IN  CASE h.tok = "string" -> ParseOk(h.s, r)
               [] h.tok = "null" -> ParseOk(Null, r)
               [] h.tok = "number" -> ParseOk(Num, r)
               [] h = LBrack ->
                    IF r # <<>> /\ Head(r) = RBrack
                    THEN ParseOk(Arr(<<>>), Tail(r))
                    ELSE ParseItems(r, <<>>)
               [] h = LBrace ->
                    IF r # <<>> /\ Head(r) = RBrace
                    THEN ParseOk(Obj(<<>>), Tail(r))
                    ELSE ParseMembers(r, <<>>)
               [] OTHER -> ParseFail

ParseItems(ts, acc) ==
    LET r == ParseValue(ts)
    IN  IF ~r.ok \/ r.rest = <<>> THEN ParseFail
        ELSE IF Head(r.rest) = Comma
             THEN ParseItems(Tail(r.rest), Append(acc, r.v))
        ELSE IF Head(r.rest) = RBrack
             THEN ParseOk(Arr(Append(acc, r.v)), Tail(r.rest))
        ELSE ParseFail

ParseMembers(ts, acc) ==
    IF Len(ts) < 3 \/ ts[1].tok # "string" \/ ts[2] # Colon THEN ParseFail
    ELSE LET r == ParseValue(SubSeq(ts, 3, Len(ts)))
         IN  IF ~r.ok \/ r.rest = <<>> THEN ParseFail
             ELSE IF Head(r.rest) = Comma
                  THEN ParseMembers(Tail(r.rest),
                                    PutEntry(acc, ts[1].s, r.v, 1))
             ELSE IF Head(r.rest) = RBrace
                  THEN ParseOk(Obj(PutEntry(acc, ts[1].s, r.v, 1)),
                               Tail(r.rest))
             ELSE ParseFail

IsNotWs(tok) == tok # WsTok

\* JSON.parse: ok is FALSE where it throws a SyntaxError.
JSONparse(text) ==
    LET r == ParseValue(SelectSeq(text.toks, IsNotWs))
    IN  IF r.ok /\ r.rest = <<>> THEN [ok |-> TRUE, v |-> r.v]
        ELSE [ok |-> FALSE, v |-> Undefined]

----------------------------------------------------------------------------
(* commandUtils: the size guard *)

SecretStringLimit == 65536

SizeError(bytes) ==
    [t |-> "error", name |-> Str("Error", 1), code |-> Undefined,
     Code |-> Undefined,
     message |-> [text |-> "SecretString size exceeds 65536 bytes",
                  bytes |-> bytes]]

\* A variant with the comparison off by one.
assertBytesWithinSecretsManagerLimit_offByOne(v) ==
    LET bytes == byteLength(toSecretString(v))
    IN  IF bytes >= SecretStringLimit THEN Throw(SizeError(bytes))
        ELSE Return(Undefined)

assertBytesWithinSecretsManagerLimit(v) ==
    LET bytes == byteLength(toSecretString(v))
    IN  IF bytes > SecretStringLimit THEN Throw(SizeError(bytes))
        ELSE Return(Undefined)

----------------------------------------------------------------------------
(* provenanceSelectors.ts *)

Scopes == {"global", "env"}
Privacies == {"public", "private"}
ConfigScopes == {"packaged", "project"}
DynamicSources == {"config", "programmatic", "dynamicPath"}
Wild == "*"

FileEntry(scope, privacy) ==
    [kind |-> "file", scope |-> scope, privacy |-> privacy]
ConfigEntry(configScope, scope, privacy) ==
    [kind |-> "config", configScope |-> configScope, scope |-> scope,
     privacy |-> privacy]
DynamicEntry(dynamicSource) ==
    [kind |-> "dynamic", dynamicSource |-> dynamicSource]
VarsEntry == [kind |-> "vars"]

\* The same entry carrying op: 'unset'.
Unset(e) == [f \in DOMAIN e \cup {"op"} |-> IF f = "op" THEN "unset" ELSE e[f]]

\* DotenvProvenanceAnyEntry without the op marker.
BaseEntries ==
    {FileEntry(s, p) : s \in Scopes, p \in Privacies}
    \cup {ConfigEntry(c, sp[1], sp[2]) :
            c \in ConfigScopes, sp \in Scopes \X Privacies}
    \cup {DynamicEntry(d) : d \in DynamicSources}
    \cup {VarsEntry}

AnyEntry == BaseEntries \cup {Unset(e) : e \in BaseEntries}

\* FromSelector: the entry shapes, each scalar field also admitting '*'.
FromSelectors ==
    {FileEntry(s, p) : s \in Scopes \cup {Wild}, p \in Privacies \cup {Wild}}
    \cup {ConfigEntry(c, sp[1], sp[2]) :
            c \in ConfigScopes \cup {Wild},
            sp \in (Scopes \cup {Wild}) \X (Privacies \cup {Wild})}
    \cup {DynamicEntry(d) : d \in DynamicSources \cup {Wild}}
    \cup {VarsEntry}

wildcardMatch(v, sel) == sel = Wild \/ v = sel

\* A variant that reads the oldest entry of the history.
getEffectiveProvenanceEntry_oldest(entries) ==
    IF Len(entries) # 0 THEN entries[1] ELSE Undefined

\* entries is always an array here (the values of Object.entries(provenance)),
\* so of `entries && entries.length` only the length test can fail.
getEffectiveProvenanceEntry(entries) ==
    IF Len(entries) # 0 THEN entries[Len(entries)] ELSE Undefined

\* A variant that compares only the scope of a file entry.
matchesFromSelector_scopeOnly(entry, sel) ==
    IF entry.kind # sel.kind THEN FALSE
    ELSE IF sel.kind = "vars" THEN TRUE
    ELSE IF sel.kind = "dynamic"
         THEN wildcardMatch(entry.dynamicSource, sel.dynamicSource)
    ELSE IF sel.kind = "file"
         THEN wildcardMatch(entry.scope, sel.scope)
    ELSE wildcardMatch(entry.configScope, sel.configScope)
         /\ wildcardMatch(entry.scope, sel.scope)
         /\ wildcardMatch(entry.privacy, sel.privacy)

matchesFromSelector(entry, sel) ==
    IF entry.kind # sel.kind THEN FALSE
    ELSE IF sel.kind = "vars" THEN TRUE
    ELSE IF sel.kind = "dynamic"
         THEN wildcardMatch(entry.dynamicSource, sel.dynamicSource)
    ELSE IF sel.kind = "file"
         THEN wildcardMatch(entry.scope, sel.scope)
              /\ wildcardMatch(entry.privacy, sel.privacy)
    ELSE wildcardMatch(entry.configScope, sel.configScope)
         /\ wildcardMatch(entry.scope, sel.scope)
         /\ wildcardMatch(entry.privacy, sel.privacy)

\* A variant that honours an unset marker anywhere in the history.
selectsKey_anyUnset(dotenvMap, entries, key, sels) ==
    LET value == Get(dotenvMap, key)
        effective == getEffectiveProvenanceEntry(entries)
    IN  /\ value # Undefined
        /\ effective # Undefined
        /\ ~\E j \in 1..Len(entries) :
               Has(entries[j], "op") /\ entries[j].op = "unset"
        /\ \E i \in 1..Len(sels) : matchesFromSelector(effective, sels[i])

\* One iteration of the loop over Object.entries(provenance): does the key
\* get out[key] = value?
\* A variant that asks every selector to match.
selectsKey_everySelector(dotenvMap, entries, key, sels) ==
    LET value == Get(dotenvMap, key)
        effective == getEffectiveProvenanceEntry(entries)
    IN  /\ value # Undefined
        /\ effective # Undefined
        /\ ~(Has(effective, "op") /\ effective.op = "unset")
        /\ \A i \in 1..Len(sels) : matchesFromSelector(effective, sels[i])

\* A selection that does not skip a key whose value is undefined.
selectsKey_absentToo(dotenvMap, entries, key, sels) ==
    LET effective == getEffectiveProvenanceEntry(entries)
    IN  /\ effective # Undefined
        /\ ~(Has(effective, "op") /\ effective.op = "unset")
        /\ \E i \in 1..Len(sels) : matchesFromSelector(effective, sels[i])

selectsKey(dotenvMap, entries, key, sels) ==
    LET value == Get(dotenvMap, key)
        effective == getEffectiveProvenanceEntry(entries)
    IN  /\ value # Undefined
        /\ effective # Undefined
        /\ ~(Has(effective, "op") /\ effective.op = "unset")
        /\ \E i \in 1..Len(sels) : matchesFromSelector(effective, sels[i])

\* A variant that iterates the keys of dotenv and lets a key without
\* provenance through.
selectEnvByProvenance_dotenvKeys(dotenvMap, prov, sels) ==
    LET keys == {k \in DOMAIN dotenvMap :
                    /\ dotenvMap[k] # Undefined
                    /\ \/ k \notin DOMAIN prov
                       \/ selectsKey(dotenvMap, prov[k], k, sels)}
    IN  [k \in keys |-> dotenvMap[k]]

selectEnvByProvenance(dotenvMap, prov, sels) ==
    LET keys == {k \in DOMAIN prov : selectsKey(dotenvMap, prov[k], k, sels)}
    IN  [k \in keys |-> dotenvMap[k]]

----------------------------------------------------------------------------
(* X-Ray capture and the construction of the tools *)

\* A decision that asks for the address in mode 'on' as well.
shouldEnableXray_onNeedsAddress(mode, daemonAddress) ==
    IF mode = Str("off", 1) THEN FALSE
    ELSE ~Falsy(daemonAddress)

shouldEnableXray(mode, daemonAddress) ==
    IF mode = Str("off", 1) THEN FALSE
    ELSE IF mode = Str("on", 1) THEN TRUE
    ELSE ~Falsy(daemonAddress)

\* The SDK client made by the constructor, and the client that
\* AWSXRay.captureAWSv3Client makes of a client.
Client(captured) == [t |-> "client", captured |-> captured]

Wrapped(client) == [t |-> "client", captured |-> TRUE, base |-> client]

\* What import('aws-xray-sdk') finds.
SdkStates == {"missing", "noExport", "ok"}

XrayAddressMissing ==
    Error(Str("X-Ray capture requested but AWS_XRAY_DAEMON_ADDRESS is not set.", 1))

XrayNotInstalled ==
    Error(Str("X-Ray capture is enabled but 'aws-xray-sdk' is not installed. Install it or set xray to 'off'.", 1))

XrayNoExport == Error(Str("aws-xray-sdk missing captureAWSv3Client export.", 1))

\* What a call of captureAwsSdkV3Client did: its outcome and the number of
\* times it evaluated import('aws-xray-sdk').
Captured(result, imports) == [result |-> result, imports |-> imports]

\* A capture that imports the SDK before it looks at the daemon address.
captureAwsSdkV3Client_importFirst(client, mode, daemonAddress, envAddress, sdk) ==
    LET m == IF mode = Undefined THEN Str("auto", 1) ELSE mode
        d == IF daemonAddress = Undefined THEN envAddress ELSE daemonAddress
    IN  IF sdk = "missing" THEN Captured(Throw(XrayNotInstalled), 1)
        ELSE IF ~shouldEnableXray(m, d) THEN Captured(Return(client), 1)
        ELSE IF Falsy(d) THEN Captured(Throw(XrayAddressMissing), 1)
        ELSE IF sdk = "noExport" THEN Captured(Throw(XrayNoExport), 1)
        ELSE Captured(Return(Wrapped(client)), 1)

\* A capture that does not look at the daemon address once enabled.
captureAwsSdkV3Client_noAddressCheck(client, mode, daemonAddress, envAddress, sdk) ==
    LET m == IF mode = Undefined THEN Str("auto", 1) ELSE mode
        d == IF daemonAddress = Undefined THEN envAddress ELSE daemonAddress
    IN  IF ~shouldEnableXray(m, d) THEN Captured(Return(client), 0)
        ELSE IF sdk = "missing" THEN Captured(Throw(XrayNotInstalled), 1)
        ELSE IF sdk = "noExport" THEN Captured(Throw(XrayNoExport), 1)
        ELSE Captured(Return(Wrapped(client)), 1)

\* mode and daemonAddress are the options of the call, undefined when
\* omitted: mode then is 'auto' and daemonAddress is envAddress, the
\* AWS_XRAY_DAEMON_ADDRESS of the process.
captureAwsSdkV3Client(client, mode, daemonAddress, envAddress, sdk) ==
    LET m == IF mode = Undefined THEN Str("auto", 1) ELSE mode
        d == IF daemonAddress = Undefined THEN envAddress ELSE daemonAddress
    IN  IF ~shouldEnableXray(m, d) THEN Captured(Return(client), 0)
        ELSE IF Falsy(d) THEN Captured(Throw(XrayAddressMissing), 0)
        ELSE IF sdk = "missing" THEN Captured(Throw(XrayNotInstalled), 1)
        ELSE IF sdk = "noExport" THEN Captured(Throw(XrayNoExport), 1)
        ELSE Captured(Return(Wrapped(client)), 1)

\* new AwsSecretsManagerTools({ xray }), as AwsSecretsManagerTools.init
\* resolves it: what the construction did. xrayMode undefined is 'auto';
\* envAddress is the AWS_XRAY_DAEMON_ADDRESS of the process.
\* XrayState: { mode, enabled, ...(enabled && daemonAddress ? { daemonAddress } : {}) }
XrayState(mode, enabled, daemonAddress) ==
    IF enabled /\ ~Falsy(daemonAddress)
    THEN [mode |-> mode, enabled |-> enabled, daemonAddress |-> daemonAddress]
    ELSE [mode |-> mode, enabled |-> enabled]

\* A constructor that keeps the base client whatever the decision.
construct_baseClient(xrayMode, envAddress, sdk) ==
    LET mode == IF xrayMode = Undefined THEN Str("auto", 1) ELSE xrayMode
        enabled == shouldEnableXray(mode, envAddress)
    IN  Captured(Return([t |-> "tools", client |-> Client(FALSE),
                         xray |-> XrayState(mode, enabled, envAddress)]), 0)

construct(xrayMode, envAddress, sdk) ==
    LET mode == IF xrayMode = Undefined THEN Str("auto", 1) ELSE xrayMode
        base == Client(FALSE)
        enabled == shouldEnableXray(mode, envAddress)
        effectiveClient ==
            IF enabled
            THEN captureAwsSdkV3Client(base, mode, envAddress, envAddress, sdk)
            ELSE Captured(Return(base), 0)
    IN  IF effectiveClient.result.t = "throw" THEN effectiveClient
        ELSE Captured(Return([t |-> "tools", client |-> effectiveClient.result.v,
                              xray |-> XrayState(mode, enabled, envAddress)]),
                      effectiveClient.imports)

\* A logger candidate: the console methods it has as functions.
LoggerMethods == {"debug", "info", "warn", "error"}

Logger(methods) == [t |-> "logger", methods |-> methods]

Console == Logger(LoggerMethods)

LoggerInvalid(message) == Error(Str(message, 1))

\* assertLogger of @karmaniverous/get-dotenv, which the constructor of
\* AwsSecretsManagerTools calls: the candidate, or a throw.
getDotenv_assertLogger(candidate) ==
    IF Falsy(candidate) \/ TypeOf(candidate) # "logger"
    THEN Throw(LoggerInvalid("logger must be an object with debug, info, warn, and error methods"))
    ELSE IF \E f \in {"debug", "info", "warn", "error"} : f \notin candidate.methods
    THEN Throw(LoggerInvalid("logger must implement debug, info, warn, and error methods; wrap/proxy your logger if needed"))
    ELSE Return(candidate)

\* assertLogger of AwsSecretsManagerClient.ts.
assertLogger(logger) ==
    IF \E f \in {"info", "error", "debug"} : f \notin logger.methods
    THEN Throw(LoggerInvalid("logger must have info, error, and debug methods"))
    ELSE Return(Undefined)

\* What a constructor did, in order, and the instance or the throw.
Built(steps, result) == [steps |-> steps, result |-> result]

\* new AwsSecretsManagerTools({ clientConfig: { logger }, xray }): the
\* logger first, then the SDK client, then the capture.
newAwsSecretsManagerTools(clientLogger, xrayMode, envAddress, sdk) ==
    LET logger == getDotenv_assertLogger(
                      IF Nullish(clientLogger) THEN Console ELSE clientLogger)
        c == construct(xrayMode, envAddress, sdk)
        enabled == shouldEnableXray(
                      IF xrayMode = Undefined THEN Str("auto", 1) ELSE xrayMode,
                      envAddress)
        steps == <<"assertLogger", "new SecretsManagerClient">>
                 \o IF enabled THEN <<"captureAwsSdkV3Client">> ELSE <<>>
    IN  IF logger.t = "throw" THEN Built(<<"assertLogger">>, logger)
        ELSE IF c.result.t = "throw" THEN Built(steps, c.result)
        ELSE Built(steps,
                   Return([x \in DOMAIN c.result.v \cup {"logger"} |->
                             IF x = "logger" THEN logger.v ELSE c.result.v[x]]))

\* new AwsSecretsManagerClient({ client, logger, xray }): logger undefined
\* is console; injected tells whether a client is given.
newAwsSecretsManagerClient(injected, loggerOpt, xray) ==
    LET logger == IF loggerOpt = Undefined THEN Console ELSE loggerOpt
        asserted == assertLogger(logger)
    IN  IF asserted.t = "throw" THEN Built(<<"assertLogger">>, asserted)
        ELSE Built(<<"assertLogger">>
                   \o IF injected THEN <<>> ELSE <<"new SecretsManagerClient">>,
                   Return([t |-> "client instance", logger |-> logger,
                           injected |-> injected,
                           xray |-> IF xray = Undefined THEN Str("auto", 1)
                                    ELSE xray]))

\* AwsSecretsManagerTools.init: the tools, or the failure of the capture.
init(xrayMode, daemonAddress, sdk) == construct(xrayMode, daemonAddress, sdk).result

----------------------------------------------------------------------------
(* provenanceSelectors: selector texts *)

\* A selector text is what stands between its colons: each piece a word,
\* maybe empty, maybe with blanks around it.
Piece(w, blanks) == [w |-> w, blanks |-> blanks]
RawSelector(pieces) == [t |-> "string", pieces |-> pieces]

IsNotEmpty(w) == w # ""

\* raw.split(':').map((p) => p.trim()).filter(Boolean)
parseParts(raw) ==
    SelectSeq([i \in 1..Len(raw.pieces) |-> raw.pieces[i].w], IsNotEmpty)

isOneOf(v, allowed) == v \in allowed

InvalidFromSelector(raw) ==
    [t |-> "error", name |-> Str("Error", 1), code |-> Undefined,
     Code |-> Undefined,
     message |-> [t |-> "string", text |-> "Invalid --from selector: ${raw}",
                  raw |-> raw]]

parseFromSelector(raw) ==
    LET parts == parseParts(raw)
        kind == IF Len(parts) > 0 THEN parts[1] ELSE "<undefined>"
        invalid == Throw(InvalidFromSelector(raw))
    IN  IF Len(parts) = 1 /\ kind = "vars" THEN Return(VarsEntry)
        ELSE IF kind = "file"
        THEN IF Len(parts) # 3 THEN invalid
             ELSE IF \/ ~isOneOf(parts[2], Scopes \cup {Wild})
                     \/ ~isOneOf(parts[3], Privacies \cup {Wild})
             THEN invalid
             ELSE Return(FileEntry(parts[2], parts[3]))
        ELSE IF kind = "config"
        THEN IF Len(parts) # 4 THEN invalid
             ELSE IF \/ ~isOneOf(parts[2], ConfigScopes \cup {Wild})
                     \/ ~isOneOf(parts[3], Scopes \cup {Wild})
                     \/ ~isOneOf(parts[4], Privacies \cup {Wild})
             THEN invalid
             ELSE Return(ConfigEntry(parts[2], parts[3], parts[4]))
        ELSE IF kind = "dynamic"
        THEN IF Len(parts) # 2 THEN invalid
             ELSE IF ~isOneOf(parts[2], DynamicSources \cup {Wild})
             THEN invalid
             ELSE Return(DynamicEntry(parts[2]))
        ELSE invalid

InvalidToSelector(raw) ==
    [t |-> "error", name |-> Str("Error", 1), code |-> Undefined,
     Code |-> Undefined,
     message |-> [t |-> "string", text |-> "Invalid --to selector: ${raw}",
                  raw |-> raw]]

ToSelector(scope, privacy) == [scope |-> scope, privacy |-> privacy]

\* A variant that lets the wildcard through.
parseToSelector_wildcard(raw) ==
    LET parts == parseParts(raw)
        invalid == Throw(InvalidToSelector(raw))
    IN  IF Len(parts) # 2 THEN invalid
        ELSE IF \/ ~isOneOf(parts[1], Scopes \cup {Wild})
                \/ ~isOneOf(parts[2], Privacies \cup {Wild})
        THEN invalid
        ELSE Return(ToSelector(parts[1], parts[2]))

parseToSelector(raw) ==
    LET parts == parseParts(raw)
        invalid == Throw(InvalidToSelector(raw))
    IN  IF Len(parts) # 2 THEN invalid
        ELSE IF \/ ~isOneOf(parts[1], Scopes)
                \/ ~isOneOf(parts[2], Privacies)
        THEN invalid
        ELSE Return(ToSelector(parts[1], parts[2]))

\* fromRaw.map(parseFromSelector): the first text that is refused ends it.
RECURSIVE MapParseFromSelector(_, _, _)
MapParseFromSelector(raws, i, acc) ==
    IF i > Len(raws) THEN Return(acc)
    ELSE LET r == parseFromSelector(raws[i])
         IN  IF r.t = "throw" THEN r
             ELSE MapParseFromSelector(raws, i + 1, Append(acc, r.v))

----------------------------------------------------------------------------
(* Include and exclude lists *)

\* a?.length as a condition
HasLength(a) == IF Nullish(a) THEN FALSE ELSE Len(a.items) > 0

IncludeExcludeConflict ==
    Error(Str("--exclude and --include are mutually exclusive.", 1))

\* A resolution that falls back to each configuration list on its own.
resolveIncludeExclude_perList(cliInclude, cliExclude, cfgInclude, cfgExclude) ==
    LET include == IF ~Nullish(cliInclude) THEN cliInclude ELSE cfgInclude
        exclude == IF ~Nullish(cliExclude) THEN cliExclude ELSE cfgExclude
    IN  IF HasLength(include) /\ HasLength(exclude)
        THEN Throw(IncludeExcludeConflict)
        ELSE Return([include |-> include, exclude |-> exclude])

resolveIncludeExclude(cliInclude, cliExclude, cfgInclude, cfgExclude) ==
    LET include == IF ~Nullish(cliInclude) THEN cliInclude
                   ELSE IF ~Falsy(cliExclude) THEN Undefined ELSE cfgInclude
        exclude == IF ~Nullish(cliExclude) THEN cliExclude
                   ELSE IF ~Falsy(cliInclude) THEN Undefined ELSE cfgExclude
    IN  IF HasLength(include) /\ HasLength(exclude)
        THEN Throw(IncludeExcludeConflict)
        ELSE Return([include |-> include, exclude |-> exclude])

ItemsOf(a) == {a.items[i] : i \in 1..Len(a.items)}

\* A pick that makes an entry for every name it is given.
pick_everyName(m, keys) ==
    [k \in ItemsOf(keys) |-> IF k \in DOMAIN m THEN m[k] ELSE Undefined]

\* omit and pick of radash
omit(m, keys) == [k \in DOMAIN m \ ItemsOf(keys) |-> m[k]]
pick(m, keys) == [k \in DOMAIN m \cap ItemsOf(keys) |-> m[k]]

applyIncludeExclude(env, include, exclude) ==
    LET omitted == IF HasLength(exclude) THEN omit(env, exclude) ELSE env
    IN  IF HasLength(include) THEN pick(omitted, include) ELSE omitted

----------------------------------------------------------------------------
(* The push command up to its first await *)

\* A JavaScript object held where undefined may be held as well.
MapObj(m) == [t |-> "object", map |-> m]

DefaultFrom ==
    Arr(<<RawSelector(<<Piece("file", FALSE), Piece("env", FALSE),
                        Piece("private", FALSE)>>)>>)

SecretNameRequired == Error(Str("secret-name is required.", 1))

ProvenanceMissing ==
    Error(Str("dotenv provenance is missing (requires get-dotenv v6.4.0+).", 1))

\* How far the action came (steps), and either the failure that ended it
\* or the arguments it has for upsertEnvSecret.
Aborted(steps, e) ==
    [steps |-> steps, result |-> Throw(e), call |-> NoResult]
Proceeds(steps, secretId, secrets) ==
    [steps |-> steps, result |-> NoResult,
     call |-> [secretId |-> secretId, value |-> secrets]]

\* The action without the size guard.
pushAction_unguarded(c, opts) ==
    LET fromRaw == IF HasLength(opts.from) THEN opts.from
                   ELSE IF HasLength(opts.cfgFrom) THEN opts.cfgFrom
                   ELSE DefaultFrom
        fromSelectors == MapParseFromSelector(fromRaw.items, 1, <<>>)
        resolved == resolveIncludeExclude(opts.include, opts.exclude,
                                          opts.cfgInclude, opts.cfgExclude)
        selectedEnv == selectEnvByProvenance(c.dotenv,
                                             c.dotenvProvenance.map,
                                             fromSelectors.v)
        secrets == applyIncludeExclude(selectedEnv, resolved.v.include,
                                       resolved.v.exclude)
    IN  IF fromSelectors.t = "throw"
        THEN Aborted(<<"parseFromSelector">>, fromSelectors.err)
        ELSE IF resolved.t = "throw"
        THEN Aborted(<<"parseFromSelector", "resolveIncludeExclude">>,
                     resolved.err)
        ELSE IF Falsy(opts.secretId)
        THEN Aborted(<<"parseFromSelector", "resolveIncludeExclude",
                       "expandSecretName">>, SecretNameRequired)
        ELSE IF Falsy(c.dotenvProvenance)
        THEN Aborted(<<"parseFromSelector", "resolveIncludeExclude",
                       "expandSecretName">>, ProvenanceMissing)
        ELSE Proceeds(<<"parseFromSelector", "resolveIncludeExclude",
                        "expandSecretName", "selectEnvByProvenance",
                        "applyIncludeExclude">>, opts.secretId, secrets)

\* The push action up to AwsSecretsManagerTools.init; opts.secretId is the
\* secret name after expansion.
pushAction(c, opts) ==
    LET fromRaw == IF HasLength(opts.from) THEN opts.from
                   ELSE IF HasLength(opts.cfgFrom) THEN opts.cfgFrom
                   ELSE DefaultFrom
        fromSelectors == MapParseFromSelector(fromRaw.items, 1, <<>>)
        resolved == resolveIncludeExclude(opts.include, opts.exclude,
                                          opts.cfgInclude, opts.cfgExclude)
        selectedEnv == selectEnvByProvenance(c.dotenv,
                                             c.dotenvProvenance.map,
                                             fromSelectors.v)
        secrets == applyIncludeExclude(selectedEnv, resolved.v.include,
                                       resolved.v.exclude)
        guarded == assertBytesWithinSecretsManagerLimit(secrets)
    IN  IF fromSelectors.t = "throw"
        THEN Aborted(<<"parseFromSelector">>, fromSelectors.err)
        ELSE IF resolved.t = "throw"
        THEN Aborted(<<"parseFromSelector", "resolveIncludeExclude">>,
                     resolved.err)
        ELSE IF Falsy(opts.secretId)
        THEN Aborted(<<"parseFromSelector", "resolveIncludeExclude",
                       "expandSecretName">>, SecretNameRequired)
        ELSE IF Falsy(c.dotenvProvenance)
        THEN Aborted(<<"parseFromSelector", "resolveIncludeExclude",
                       "expandSecretName">>, ProvenanceMissing)
        ELSE IF guarded.t = "throw"
        THEN Aborted(<<"parseFromSelector", "resolveIncludeExclude",
                       "expandSecretName", "selectEnvByProvenance",
                       "applyIncludeExclude",
                       "assertBytesWithinSecretsManagerLimit">>, guarded.err)
        ELSE Proceeds(<<"parseFromSelector", "resolveIncludeExclude",
                        "expandSecretName", "selectEnvByProvenance",
                        "applyIncludeExclude",
                        "assertBytesWithinSecretsManagerLimit">>,
                      opts.secretId, secrets)

----------------------------------------------------------------------------
(* The secret store behind client.send. A request is answered in one step: *)
(* by the store's own answer, or by a failure of the service.              *)

NoSecret == [t |-> "absent"]
\* body is a text, or undefined for a binary secret.
Secret(body) == [t |-> "secret", SecretString |-> body]

\* An exception of the AWS SDK: its name is the error code.
AwsError(name, message) ==
    [t |-> "error", name |-> Str(name, 1), code |-> Undefined,
     Code |-> Undefined, message |-> Str(message, 1)]

NotFound == AwsError("ResourceNotFoundException", "can't find the secret")
Exists == AwsError("ResourceExistsException", "the secret already exists")

\* Failures any request can meet; the second one only mentions the not-found
\* code in its message.
Faults ==
    {AwsError("AccessDeniedException", "denied"),
     AwsError("InternalServiceError", "ResourceNotFoundException")}

Ok(res) == [ok |-> TRUE, res |-> res]
Failed(e) == [ok |-> FALSE, err |-> e]

Lookup(st, id) == IF id \in DOMAIN st THEN st[id] ELSE NoSecret

Answer(st, out) == [store |-> st, out |-> out]

\* client.send(new <cmd>Command(input)): the answers it may give.
send(st, cmd, input) ==
    LET id == IF cmd = "CreateSecret" THEN input.Name ELSE input.SecretId
        cur == Lookup(st, id)
        written == [x \in DOMAIN st |->
                      IF x = id THEN Secret(input.SecretString) ELSE st[x]]
        removed == [x \in DOMAIN st |-> IF x = id THEN NoSecret ELSE st[x]]
        natural ==
            CASE cmd = "GetSecretValue" ->
                    IF cur = NoSecret THEN Answer(st, Failed(NotFound))
                    ELSE Answer(st, Ok([SecretString |-> cur.SecretString]))
              [] cmd = "PutSecretValue" ->
                    IF cur = NoSecret THEN Answer(st, Failed(NotFound))
                    ELSE Answer(written, Ok(Undefined))
              [] cmd = "CreateSecret" ->
                    IF cur # NoSecret THEN Answer(st, Failed(Exists))
                    ELSE Answer(written, Ok(Undefined))
              [] cmd = "DeleteSecret" ->
                    IF cur = NoSecret THEN Answer(st, Failed(NotFound))
                    ELSE Answer(removed, Ok(Undefined))
    IN  {natural} \cup {Answer(st, Failed(f)) : f \in Faults}

----------------------------------------------------------------------------
(* AwsSecretsManagerTools *)

\* { ...a, ...b }
Merge(a, b) ==
    [f \in DOMAIN a \cup DOMAIN b |-> IF f \in DOMAIN b THEN b[f] ELSE a[f]]

\* ...(cond ? fields : {})
Opt(cond, fields) == IF cond THEN fields ELSE <<>>

\* out[k] = v on an env map.
Assign(m, k, v) == [x \in DOMAIN m \cup {k} |-> IF x = k THEN v ELSE m[x]]

ValueTypeError(k) ==
    [t |-> "error", name |-> Str("Error", 1), code |-> Undefined,
     Code |-> Undefined,
     message |-> [t |-> "string",
                  text |-> "Secret JSON value for '${k}' must be a string or null.",
                  k |-> k]]

\* The loop of parseProcessEnv over Object.entries(parsed).
RECURSIVE DecodeEntries(_, _, _)
DecodeEntries(entries, i, out) ==
    IF i > Len(entries) THEN Return(out)
    ELSE IF entries[i].v = Null
         THEN DecodeEntries(entries, i + 1,
                            Assign(out, entries[i].k, Undefined))
    ELSE IF TypeOf(entries[i].v) = "string"
         THEN DecodeEntries(entries, i + 1,
                            Assign(out, entries[i].k, entries[i].v))
    ELSE Throw(ValueTypeError(entries[i].k))

InvalidJson == Error(Str("SecretString is not valid JSON.", 1))

InvalidShape == Error(Str("Secret JSON must be an object map.", 1))

\* parseProcessEnv taking an array for an object without entries.
parseProcessEnv_arrayAsObject(secretString) ==
    LET parsed == JSONparse(secretString)
    IN  IF ~parsed.ok
        THEN Throw(InvalidJson)
        ELSE IF Falsy(parsed.v) \/ TypeOf(parsed.v) # "object"
        THEN Throw(InvalidShape)
        ELSE IF parsed.v.t = "array" THEN Return(<<>>)
        ELSE DecodeEntries(parsed.v.entries, 1, <<>>)

parseProcessEnv(secretString) ==
    LET parsed == JSONparse(secretString)
    IN  IF ~parsed.ok
        THEN Throw(InvalidJson)
        ELSE IF Falsy(parsed.v) \/ TypeOf(parsed.v) # "object"
                \/ parsed.v.t = "array"
        THEN Throw(InvalidShape)
        ELSE DecodeEntries(parsed.v.entries, 1, <<>>)

Sent(cmd, input, out) == [cmd |-> cmd, input |-> input, out |-> out]

\* What one call leaves behind: the store, the requests it sent with their
\* answers, and its result.
Outcome(st, sent, result) == [store |-> st, sent |-> sent, result |-> result]

SecretIdRequired == Error(Str("secretId is required", 1))

MissingPayload ==
    Error(Str("SecretString is missing (binary secrets not supported).", 1))

\* A read that sends its request again when the store refuses it.
readEnvSecret_retry(st, opts) ==
    IF Falsy(opts.secretId) THEN {Outcome(st, <<>>, Throw(SecretIdRequired))}
    ELSE LET input == Merge([SecretId |-> opts.secretId],
                            Opt(~Falsy(opts.versionId),
                                [VersionId |-> opts.versionId]))
             decoded(out) ==
                IF ~out.ok THEN Throw(out.err)
                ELSE IF Falsy(out.res.SecretString) THEN Throw(MissingPayload)
                ELSE parseProcessEnv(out.res.SecretString)
         IN  UNION {IF r.out.ok
                    THEN {Outcome(r.store, <<Sent("GetSecretValue", input, r.out)>>,
                                  decoded(r.out))}
                    ELSE {Outcome(q.store,
                                  <<Sent("GetSecretValue", input, r.out),
                                    Sent("GetSecretValue", input, q.out)>>,
                                  decoded(q.out)) :
                            q \in send(r.store, "GetSecretValue", input)} :
                      r \in send(st, "GetSecretValue", input)}

\* A read that answers with an empty map and asks the store nothing.
readEnvSecret_noRequest(st, opts) ==
    IF Falsy(opts.secretId) THEN {Outcome(st, <<>>, Throw(SecretIdRequired))}
    ELSE {Outcome(st, <<>>, Return(<<>>))}

readEnvSecret(st, opts) ==
    IF Falsy(opts.secretId) THEN {Outcome(st, <<>>, Throw(SecretIdRequired))}
    ELSE LET input == Merge([SecretId |-> opts.secretId],
                            Opt(~Falsy(opts.versionId),
                                [VersionId |-> opts.versionId]))
         IN  {Outcome(r.store, <<Sent("GetSecretValue", input, r.out)>>,
                      IF ~r.out.ok THEN Throw(r.out.err)
                      ELSE IF Falsy(r.out.res.SecretString)
                           THEN Throw(MissingPayload)
                      ELSE parseProcessEnv(r.out.res.SecretString)) :
                r \in send(st, "GetSecretValue", input)}

\* An update that creates the secret the store does not have.
updateEnvSecret_creating(st, opts) ==
    IF Falsy(opts.secretId) THEN {Outcome(st, <<>>, Throw(SecretIdRequired))}
    ELSE LET input == Merge([SecretId |-> opts.secretId,
                             SecretString |-> toSecretString(opts.value)],
                            Opt(~Falsy(opts.versionId),
                                [ClientRequestToken |-> opts.versionId]))
             name == [Name |-> opts.secretId,
                      SecretString |-> toSecretString(opts.value)]
         IN  UNION {IF r.out.ok \/ r.out.err # NotFound
                    THEN {Outcome(r.store, <<Sent("PutSecretValue", input, r.out)>>,
                                  IF ~r.out.ok THEN Throw(r.out.err)
                                  ELSE Return(Undefined))}
                    ELSE {Outcome(q.store,
                                  <<Sent("PutSecretValue", input, r.out),
                                    Sent("CreateSecret", name, q.out)>>,
                                  IF ~q.out.ok THEN Throw(q.out.err)
                                  ELSE Return(Undefined)) :
                            q \in send(r.store, "CreateSecret", name)} :
                      r \in send(st, "PutSecretValue", input)}

\* updateEnvSecret sending whatever secretId it is given.
updateEnvSecret_unvalidated(st, opts) ==
    LET input == Merge([SecretId |-> opts.secretId,
                        SecretString |-> toSecretString(opts.value)],
                       Opt(~Falsy(opts.versionId),
                           [ClientRequestToken |-> opts.versionId]))
    IN  {Outcome(r.store, <<Sent("PutSecretValue", input, r.out)>>,
                 IF ~r.out.ok THEN Throw(r.out.err)
                 ELSE Return(Undefined)) :
           r \in send(st, "PutSecretValue", input)}

updateEnvSecret(st, opts) ==
    IF Falsy(opts.secretId) THEN {Outcome(st, <<>>, Throw(SecretIdRequired))}
    ELSE LET input == Merge([SecretId |-> opts.secretId,
                             SecretString |-> toSecretString(opts.value)],
                            Opt(~Falsy(opts.versionId),
                                [ClientRequestToken |-> opts.versionId]))
         IN  {Outcome(r.store, <<Sent("PutSecretValue", input, r.out)>>,
                      IF ~r.out.ok THEN Throw(r.out.err)
                      ELSE Return(Undefined)) :
                r \in send(st, "PutSecretValue", input)}

createEnvSecret(st, opts) ==
    IF Falsy(opts.secretId) THEN {Outcome(st, <<>>, Throw(SecretIdRequired))}
    ELSE LET input ==
                Merge(Merge(Merge([Name |-> opts.secretId,
                                   SecretString |-> toSecretString(opts.value)],
                                  Opt(~Falsy(opts.versionId),
                                      [ClientRequestToken |-> opts.versionId])),
                            Opt(~Falsy(opts.description),
                                [Description |-> opts.description])),
                      Opt(TypeOf(opts.forceOverwriteReplicaSecret) = "boolean",
                          [ForceOverwriteReplicaSecret |->
                              opts.forceOverwriteReplicaSecret]))
         IN  {Outcome(r.store, <<Sent("CreateSecret", input, r.out)>>,
                      IF ~r.out.ok THEN Throw(r.out.err)
                      ELSE Return(Undefined)) :
                r \in send(st, "CreateSecret", input)}

MutuallyExclusive ==
    Error(Str("recoveryWindowInDays and forceDeleteWithoutRecovery are mutually exclusive", 1))

\* deleteSecret testing its two options for truth.
deleteSecret_truthy(st, opts) ==
    IF Falsy(opts.secretId) THEN {Outcome(st, <<>>, Throw(SecretIdRequired))}
    ELSE IF ~Falsy(opts.recoveryWindowInDays)
            /\ ~Falsy(opts.forceDeleteWithoutRecovery)
    THEN {Outcome(st, <<>>, Throw(MutuallyExclusive))}
    ELSE LET input ==
                Merge(Merge([SecretId |-> opts.secretId],
                            Opt(TypeOf(opts.recoveryWindowInDays) = "number",
                                [RecoveryWindowInDays |->
                                    opts.recoveryWindowInDays])),
                      Opt(TypeOf(opts.forceDeleteWithoutRecovery) = "boolean",
                          [ForceDeleteWithoutRecovery |->
                              opts.forceDeleteWithoutRecovery]))
         IN  {Outcome(r.store, <<Sent("DeleteSecret", input, r.out)>>,
                      IF ~r.out.ok THEN Throw(r.out.err)
                      ELSE Return(Undefined)) :
                r \in send(st, "DeleteSecret", input)}

\* deleteSecret forcing the deletion when no window is given.
deleteSecret_forceByDefault(st, opts) ==
    IF Falsy(opts.secretId) THEN {Outcome(st, <<>>, Throw(SecretIdRequired))}
    ELSE IF TypeOf(opts.recoveryWindowInDays) # "undefined"
            /\ TypeOf(opts.forceDeleteWithoutRecovery) # "undefined"
    THEN {Outcome(st, <<>>, Throw(MutuallyExclusive))}
    ELSE LET input ==
                Merge([SecretId |-> opts.secretId],
                      IF TypeOf(opts.recoveryWindowInDays) = "number"
                      THEN [RecoveryWindowInDays |->
                               opts.recoveryWindowInDays]
                      ELSE [ForceDeleteWithoutRecovery |-> Bool(TRUE)])
         IN  {Outcome(r.store, <<Sent("DeleteSecret", input, r.out)>>,
                      IF ~r.out.ok THEN Throw(r.out.err)
                      ELSE Return(Undefined)) :
                r \in send(st, "DeleteSecret", input)}

deleteSecret(st, opts) ==
    IF Falsy(opts.secretId) THEN {Outcome(st, <<>>, Throw(SecretIdRequired))}
    ELSE IF TypeOf(opts.recoveryWindowInDays) # "undefined"
            /\ TypeOf(opts.forceDeleteWithoutRecovery) # "undefined"
    THEN {Outcome(st, <<>>, Throw(MutuallyExclusive))}
    ELSE LET input ==
                Merge(Merge([SecretId |-> opts.secretId],
                            Opt(TypeOf(opts.recoveryWindowInDays) = "number",
                                [RecoveryWindowInDays |->
                                    opts.recoveryWindowInDays])),
                      Opt(TypeOf(opts.forceDeleteWithoutRecovery) = "boolean",
                          [ForceDeleteWithoutRecovery |->
                              opts.forceDeleteWithoutRecovery]))
         IN  {Outcome(r.store, <<Sent("DeleteSecret", input, r.out)>>,
                      IF ~r.out.ok THEN Throw(r.out.err)
                      ELSE Return(Undefined)) :
                r \in send(st, "DeleteSecret", input)}

\* The optional arguments a caller may leave out.
NoOpts ==
    [versionId |-> Undefined, description |-> Undefined,
     forceOverwriteReplicaSecret |-> Undefined]

\* upsertEnvSecret up to the end of its await of updateEnvSecret.
upsertEnvSecret_update(st, opts) ==
    updateEnvSecret(st, Merge(NoOpts, [secretId |-> opts.secretId,
                                       value |-> opts.value]))

\* upsertEnvSecret creating after any failure of the update.
upsertEnvSecret_rest_anyFailure(st, opts, updated) ==
    IF updated.t = "return"
    THEN {Outcome(st, <<>>, Return(Str("updated", 1)))}
    ELSE {Outcome(o.store, o.sent,
                  IF o.result.t = "throw" THEN o.result
                  ELSE Return(Str("created", 1))) :
            o \in createEnvSecret(st, Merge(NoOpts,
                                            [secretId |-> opts.secretId,
                                             value |-> opts.value]))}

\* upsertEnvSecret going back to the update when its create is rejected.
upsertEnvSecret_rest_backToUpdate(st, opts, updated) ==
    IF updated.t = "return"
    THEN {Outcome(st, <<>>, Return(Str("updated", 1)))}
    ELSE IF ~isResourceNotFoundError(updated.err)
    THEN {Outcome(st, <<>>, Throw(updated.err))}
    ELSE UNION {IF o.result.t = "return"
                THEN {Outcome(o.store, o.sent, Return(Str("created", 1)))}
                ELSE {Outcome(u.store, o.sent \o u.sent,
                              IF u.result.t = "throw" THEN u.result
                              ELSE Return(Str("updated", 1))) :
                        u \in upsertEnvSecret_update(o.store, opts)} :
                  o \in createEnvSecret(st, Merge(NoOpts,
                                                  [secretId |-> opts.secretId,
                                                   value |-> opts.value]))}

\* upsertEnvSecret from there on: updated is the outcome of the update.
upsertEnvSecret_rest(st, opts, updated) ==
    IF updated.t = "return"
    THEN {Outcome(st, <<>>, Return(Str("updated", 1)))}
    ELSE IF ~isResourceNotFoundError(updated.err)
    THEN {Outcome(st, <<>>, Throw(updated.err))}
    ELSE {Outcome(o.store, o.sent,
                  IF o.result.t = "throw" THEN o.result
                  ELSE Return(Str("created", 1))) :
            o \in createEnvSecret(st, Merge(NoOpts,
                                            [secretId |-> opts.secretId,
                                             value |-> opts.value]))}

----------------------------------------------------------------------------
(* The selection caller: ctx.dotenv, ctx.dotenvProvenance and the selectors *)
(* are the inputs; Select is one call of selectEnvByProvenance.             *)

KeyA == Str("A", 1)
KeyB == Str("B", 1)

Keys == {KeyA, KeyB}

ValuePool == {Str("1", 1), Str("2", 1)}

\* ctx.dotenv: each key has its own value or none. The selection never
\* looks into a value, so one value per key tells the keys apart.
DotenvPool ==
    {d \in [Keys -> ValuePool \cup {Undefined}] :
        d[KeyA] # Str("2", 1) /\ d[KeyB] # Str("1", 1)}

EntryPool ==
    {FileEntry("env", "private"), FileEntry("global", "private"),
     DynamicEntry("config"), Unset(FileEntry("env", "private"))}

SelectorPool ==
    {FileEntry("env", "private"), FileEntry(Wild, Wild), DynamicEntry(Wild)}

IdleGuard == payload = NoResult /\ guardResult = NoResult

IdleErr == err = NoResult /\ classified = NoResult

IdleMgr == store = NoResult /\ proc = NoResult

IdleCli == ctx = NoResult

IdleXray == gate = NoResult

IdleFn == fn = NoResult

InitSelect ==
    /\ IdleFn
    /\ pc = "ready"
    /\ dotenv \in DotenvPool
    /\ \E ks \in SUBSET Keys :
          provenance \in [ks -> SeqsUpTo(EntryPool, MaxHist)]
    /\ selectors \in SeqsUpTo(SelectorPool, MaxSel)
    /\ selected = NoResult
    /\ IdleGuard
    /\ IdleErr
    /\ IdleMgr
    /\ IdleCli
    /\ IdleXray

\* A selection that takes the effective entry off each history it reads.
Select_consuming ==
    /\ pc = "ready"
    /\ selected' = selectEnvByProvenance(dotenv, provenance, selectors)
    /\ provenance' = [k \in DOMAIN provenance |->
                         IF provenance[k] = <<>> THEN <<>>
                         ELSE SubSeq(provenance[k], 1, Len(provenance[k]) - 1)]
    /\ pc' = "done"
    /\ UNCHANGED <<dotenv, selectors>>
    /\ UNCHANGED <<guardVars, errVars, mgrVars, cliVars, xrayVars, fnVars>>

Select ==
    /\ pc = "ready"
    /\ selected' = selectEnvByProvenance(dotenv, provenance, selectors)
    /\ pc' = "done"
    /\ UNCHANGED <<dotenv, provenance, selectors>>
    /\ UNCHANGED <<guardVars, errVars, mgrVars, cliVars, xrayVars, fnVars>>

NextSelect == Select

SpecSelect == InitSelect /\ [][NextSelect]_vars

IdleSelect ==
    /\ pc = "idle"
    /\ dotenv = NoResult
    /\ provenance = NoResult
    /\ selectors = <<>>
    /\ selected = NoResult

----------------------------------------------------------------------------
(* The caller of the size guard: a payload of one or two keys whose         *)
(* serialization is about as long as the limit.                             *)

GuardUnits == {"a", "<quote>", "<e-acute>", "<euro>", "<emoji>"}

\* Bytes of the serialized text around a value: {"A":""} is 8 bytes long,
\* and {"A":"","B":"1"} is 15.
OverheadOne == 8
OverheadTwo == 15

\* Values of n units whose payload is within Slack bytes of the limit.
NearLimit(u, overhead) ==
    {Str(u, n) : n \in {k \in ((SecretStringLimit - overhead - Slack)
                                    \div UnitJsonBytes(u))
                                 .. ((SecretStringLimit - overhead + Slack)
                                    \div UnitJsonBytes(u)) : k >= 0}}

GuardPayloads ==
    {[k \in {KeyA} |-> v] :
        v \in UNION {NearLimit(u, OverheadOne) : u \in GuardUnits}}
    \cup {[k \in Keys |-> IF k = KeyA THEN v ELSE w] :
            v \in UNION {NearLimit(u, OverheadTwo) : u \in GuardUnits},
            w \in {Str("1", 1), Str("<euro>", 2), Undefined}}
    \cup {[k \in ks |-> Str("1", 1)] : ks \in SUBSET Keys}

InitGuard ==
    /\ IdleFn
    /\ IdleSelect
    /\ IdleErr
    /\ IdleMgr
    /\ IdleCli
    /\ IdleXray
    /\ payload \in GuardPayloads
    /\ guardResult = NoResult

Guard ==
    /\ guardResult = NoResult
    /\ guardResult' = assertBytesWithinSecretsManagerLimit(payload)
    /\ UNCHANGED payload
    /\ UNCHANGED <<selVars, errVars, mgrVars, cliVars, xrayVars, fnVars>>

NextGuard == Guard

SpecGuard == InitGuard /\ [][NextGuard]_vars

----------------------------------------------------------------------------
(* The catch clause of upsertEnvSecret: any value may have been thrown.     *)

ErrFieldValues ==
    {Undefined, Null, Num, ResourceNotFoundException, Str("Error", 1)}

ErrMessages == {Str("nope", 1), ResourceNotFoundException}

ErrObjects ==
    {[t |-> "error", name |-> n, code |-> c, Code |-> cc, message |-> m] :
        n \in ErrFieldValues, c \in ErrFieldValues, cc \in ErrFieldValues,
        m \in ErrMessages}

ErrValues == {Undefined, Null, ResourceNotFoundException} \cup ErrObjects

WithMessage(e, m) == IF e.t = "error" THEN [e EXCEPT !.message = m] ELSE e

InitErr ==
    /\ IdleFn
    /\ IdleSelect
    /\ IdleGuard
    /\ IdleMgr
    /\ IdleCli
    /\ IdleXray
    /\ err \in ErrValues
    /\ classified = NoResult

Classify(m) ==
    /\ classified = NoResult
    /\ classified' = [t |-> "classified",
                      of |-> isResourceNotFoundError(err),
                      ofOther |-> isResourceNotFoundError(WithMessage(err, m))]
    /\ UNCHANGED err
    /\ UNCHANGED <<selVars, guardVars, mgrVars, cliVars, xrayVars, fnVars>>

NextErr == \E m \in ErrMessages : Classify(m)

SpecErr == InitErr /\ [][NextErr]_vars

----------------------------------------------------------------------------
(* The callers of AwsSecretsManagerTools and of the delete command: each    *)
(* call is made on the store the calls before it left behind.               *)

IdX == Str("x", 1)

StoreIds == {IdX}

Procs == {"p1"}

\* secretId as the caller passes it: nothing stops an empty one.
IdPool == {EmptyStr, IdX}

\* secretId as a caller of the methods passes it: it may be left out too.
ArgIdPool == IdPool \cup {Undefined}

VersionPool == {Undefined, Str("v1", 1)}

EnvPool ==
    {[k \in {KeyA} |-> Str("1", 1)],
     [k \in Keys |-> IF k = KeyA THEN Str("2", 1) ELSE Undefined]}

WindowPool == {Undefined, Null, NumV(7), NumV(0), NaN}

ForcePool == {Undefined, Null, Bool(TRUE), Bool(FALSE)}

\* A caller: the operation it is in and its options (op, opts), where it
\* is (pc), what it did before its first request (steps), its tools, the
\* arguments of the upsert it is in (call), the requests it sent with
\* their answers (sent), how the update of its upsert ended (pending), and
\* its result.
IdleProc ==
    [pc |-> "idle", op |-> "none", opts |-> NoResult, steps |-> <<>>,
     tools |-> NoResult, call |-> NoResult, sent |-> <<>>,
     pending |-> NoResult, result |-> NoResult]

Done(op, opts, sent, result) ==
    [IdleProc EXCEPT !.pc = "done", !.op = op, !.opts = opts, !.sent = sent,
                     !.result = result]

InitLifecycle ==
    /\ IdleFn
    /\ IdleSelect
    /\ IdleGuard
    /\ IdleErr
    /\ IdleCli
    /\ IdleXray
    /\ store \in [StoreIds ->
                    {NoSecret} \cup {Secret(toSecretString(v)) : v \in EnvPool}]
    /\ proc = [p \in Procs |-> IdleProc]

\* One call that sends at most one request: outcomes are what it may leave.
Call(p, op, opts, outcomes) ==
    /\ proc[p].pc = "idle"
    /\ \E o \in outcomes :
          /\ store' = o.store
          /\ proc' = [proc EXCEPT ![p] = Done(op, opts, o.sent, o.result)]
    /\ UNCHANGED <<selVars, guardVars, errVars, cliVars, xrayVars, fnVars>>

ReadOpts == [secretId : ArgIdPool, versionId : VersionPool]

Read(p) ==
    \E opts \in ReadOpts : Call(p, "read", opts, readEnvSecret(store, opts))

UpdateOpts == [secretId : ArgIdPool, value : EnvPool, versionId : VersionPool]

Update(p) ==
    \E opts \in UpdateOpts :
        Call(p, "update", opts, updateEnvSecret(store, opts))

CreateOpts ==
    [secretId : ArgIdPool, value : EnvPool, versionId : VersionPool,
     description : {Undefined, Str("d", 1)},
     forceOverwriteReplicaSecret : {Undefined, Bool(TRUE), Bool(FALSE)}]

Create(p) ==
    \E opts \in CreateOpts :
        Call(p, "create", opts, createEnvSecret(store, opts))

DeleteOpts ==
    [secretId : ArgIdPool, recoveryWindowInDays : WindowPool,
     forceDeleteWithoutRecovery : ForcePool]

Delete(p) ==
    \E opts \in DeleteOpts :
        Call(p, "delete", opts, deleteSecret(store, opts))

UpsertOpts == [secretId : ArgIdPool, value : EnvPool]

\* upsertEnvSecret until updateEnvSecret has settled.
UpsertStart(p) ==
    /\ proc[p].pc = "idle"
    /\ \E opts \in UpsertOpts :
        \E o \in upsertEnvSecret_update(store, opts) :
          /\ store' = o.store
          /\ proc' = [proc EXCEPT ![p] =
                         [IdleProc EXCEPT !.pc = "updated", !.op = "upsert",
                                          !.opts = opts, !.call = opts,
                                          !.sent = o.sent,
                                          !.pending = o.result]]
    /\ UNCHANGED <<selVars, guardVars, errVars, cliVars, xrayVars, fnVars>>

\* upsertEnvSecret from there to its end.
UpsertResume(p) ==
    /\ proc[p].pc = "updated"
    /\ \E o \in upsertEnvSecret_rest(store, proc[p].call, proc[p].pending) :
          /\ store' = o.store
          /\ proc' = [proc EXCEPT ![p].pc = "done",
                                  ![p].sent = proc[p].sent \o o.sent,
                                  ![p].result = o.result]
    /\ UNCHANGED <<selVars, guardVars, errVars, cliVars, xrayVars, fnVars>>

\* String.prototype.trim on the strings of the model.
Trim(s) == IF s.u = " " THEN EmptyStr ELSE s

RECURSIVE Digits(_, _)
Digits(d, n) == IF n = 0 THEN 0 ELSE 10 * Digits(d, n - 1) + d

\* Number(s)
Number(s) ==
    IF Trim(s) = EmptyStr THEN NumV(0)
    ELSE IF s.u = "7" THEN NumV(Digits(7, s.n))
    ELSE NaN

toNumber(v) ==
    IF TypeOf(v) = "undefined" THEN Undefined
    ELSE IF TypeOf(v) = "number" THEN v
    ELSE IF TypeOf(v) = "string" /\ ~Falsy(Trim(v)) THEN Number(v)
    ELSE Undefined

\* The options commander hands to the delete action: --force defaults to
\* false and is declared in conflict with --recovery-window-days.
DeleteCmdOpts ==
    {o \in [secretId : IdPool, force : {Bool(TRUE), Bool(FALSE)},
            recoveryWindowDays :
                {Undefined, Str("7", 1), Str(" ", 1), Str("abc", 1)}] :
        ~(o.force = Bool(TRUE) /\ o.recoveryWindowDays # Undefined)}

\* The environment the tools are made in: AWS_XRAY_DAEMON_ADDRESS, and
\* what import('aws-xray-sdk') finds.
DaemonPool == {Undefined, Str("127.0.0.1:2000", 1)}

\* The action of the delete command; secretId is the expanded secret name.
deleteAction(st, opts, daemonAddress, sdk) ==
    IF Falsy(opts.secretId)
    THEN {Outcome(st, <<>>, Throw(SecretNameRequired))}
    ELSE LET recoveryWindowInDays == toNumber(opts.recoveryWindowDays)
             tools == init(Undefined, daemonAddress, sdk)
             none == [recoveryWindowInDays |-> Undefined,
                      forceDeleteWithoutRecovery |-> Undefined]
         IN  IF tools.t = "throw" THEN {Outcome(st, <<>>, tools)}
             ELSE
             deleteSecret(st,
                Merge(Merge(none, [secretId |-> opts.secretId]),
                      IF ~Falsy(opts.force)
                      THEN [forceDeleteWithoutRecovery |-> Bool(TRUE)]
                      ELSE IF TypeOf(recoveryWindowInDays) = "number"
                      THEN [recoveryWindowInDays |-> recoveryWindowInDays]
                      ELSE <<>>))

DeleteCmd(p) ==
    \E opts \in DeleteCmdOpts, daemonAddress \in DaemonPool, sdk \in SdkStates :
        Call(p, "deleteCmd", opts,
             deleteAction(store, opts, daemonAddress, sdk))

\* The caller goes on to its next call.
Reset(p) ==
    /\ proc[p].pc = "done"
    /\ proc' = [proc EXCEPT ![p] = IdleProc]
    /\ UNCHANGED store
    /\ UNCHANGED <<selVars, guardVars, errVars, cliVars, xrayVars, fnVars>>

NextLifecycle ==
    \E p \in Procs :
        \/ Read(p)
        \/ Update(p)
        \/ Create(p)
        \/ Delete(p)
        \/ UpsertStart(p)
        \/ UpsertResume(p)
        \/ DeleteCmd(p)
        \/ Reset(p)

SpecLifecycle == InitLifecycle /\ [][NextLifecycle]_vars

----------------------------------------------------------------------------
(* The reader of a secret somebody else wrote: its body is any short text,  *)
(* the serialization of any small document, or no text at all.              *)

TokPool ==
    {LBrace, RBrace, LBrack, RBrack, Colon, Comma, StrTok(KeyA),
     StrTok(Str("1", 1)), NullTok, NumTok, WordTok, WsTok}

DocValues == {Str("1", 1), Null, Num, Arr(<<Str("nope", 1)>>), Obj(<<>>)}

DocEntries == {[k |-> k, v |-> v] : k \in Keys, v \in DocValues}

\* Documents: objects of up to MaxEntries members, and what is no object.
DocPool ==
    {Obj(es) : es \in SeqsUpTo(DocEntries, MaxEntries)}
    \cup {Arr(<<>>), Arr(<<Str("nope", 1)>>), Arr(<<Obj(<<>>)>>)}

DecodeBodies ==
    {Undefined}
    \cup {Text(toks) : toks \in SeqsUpTo(TokPool, MaxToks)}
    \cup {JSONstringify(d) : d \in DocPool}

InitDecode ==
    /\ IdleFn
    /\ IdleSelect
    /\ IdleGuard
    /\ IdleErr
    /\ IdleCli
    /\ IdleXray
    /\ store \in [StoreIds -> {NoSecret} \cup {Secret(b) : b \in DecodeBodies}]
    /\ proc = [p \in Procs |-> IdleProc]

NextDecode == \E p \in Procs : Read(p)

SpecDecode == InitDecode /\ [][NextDecode]_vars

----------------------------------------------------------------------------
(* The push command: ctx is what get-dotenv resolved, opts what the command *)
(* line and the plugin config give.                                         *)

RawOf(words) ==
    RawSelector([i \in 1..Len(words) |-> Piece(words[i], FALSE)])

RawPool ==
    {RawOf(<<"file", "env", "private">>), RawOf(<<"dynamic", "config">>),
     RawOf(<<"nope">>), RawOf(<<"file", "env">>),
     RawSelector(<<Piece("file", TRUE), Piece("global", TRUE),
                   Piece("", TRUE), Piece("private", FALSE)>>)}

\* A value that fills a payload up to the limit but for a few bytes, and
\* one that takes a payload with it over the limit.
BigValue == Str("a", SecretStringLimit - 16)
PadValue == Str("a", 20)

PushDotenvs ==
    {[k \in Keys |-> IF k = KeyA THEN a ELSE b] :
        a \in {Str("1", 1), BigValue}, b \in {PadValue, Undefined}}

PushHistories ==
    {<<FileEntry("env", "private")>>,
     <<FileEntry("env", "private"), DynamicEntry("config")>>}

PushCtxs ==
    {[dotenv |-> d, dotenvProvenance |-> pr] :
        d \in PushDotenvs,
        pr \in {Undefined} \cup {MapObj(m) : m \in [Keys -> PushHistories]}}

\* --include and --exclude are declared in conflict with each other.
PushOpts ==
    {o \in [secretId : IdPool,
            from : {Arr(raws) : raws \in SeqsUpTo(RawPool, MaxSel)},
            cfgFrom : {Undefined, Arr(<<RawOf(<<"dynamic", "*">>)>>)},
            include : {Undefined, Arr(<<KeyA>>)},
            exclude : {Undefined, Arr(<<KeyB>>)},
            cfgInclude : {Undefined, Arr(<<KeyA>>)},
            cfgExclude : {Undefined, Arr(<<KeyB>>)}] :
        o.include = Undefined \/ o.exclude = Undefined}

InitPush ==
    /\ IdleFn
    /\ IdleSelect
    /\ IdleGuard
    /\ IdleErr
    /\ IdleXray
    /\ store \in [StoreIds -> {NoSecret, Secret(Text(<<LBrace, RBrace>>))}]
    /\ proc = [p \in Procs |-> IdleProc]
    /\ ctx \in PushCtxs

\* The push action up to its first await.
PushStart(p) ==
    /\ proc[p].pc = "idle"
    /\ \E opts \in PushOpts :
          LET r == pushAction(ctx, opts)
          IN  proc' = [proc EXCEPT ![p] =
                         [IdleProc EXCEPT
                            !.pc = IF r.result.t = "throw" THEN "done"
                                   ELSE "init",
                            !.op = "push", !.opts = opts, !.steps = r.steps,
                            !.call = r.call, !.result = r.result]]
    /\ UNCHANGED <<store, ctx>>
    /\ UNCHANGED <<selVars, guardVars, errVars, xrayVars, fnVars>>

\* await AwsSecretsManagerTools.init(...)
PushInit(p) ==
    /\ proc[p].pc = "init"
    /\ \E daemonAddress \in DaemonPool, sdk \in SdkStates :
          LET tools == init(Undefined, daemonAddress, sdk)
          IN  proc' = [proc EXCEPT ![p] =
                         IF tools.t = "throw"
                         THEN [@ EXCEPT !.pc = "done", !.result = tools,
                                        !.steps = Append(@, "init")]
                         ELSE [@ EXCEPT !.pc = "upsert", !.tools = tools.v,
                                        !.steps = Append(@, "init")]]
    /\ UNCHANGED <<store, ctx>>
    /\ UNCHANGED <<selVars, guardVars, errVars, xrayVars, fnVars>>

\* tools.upsertEnvSecret(...) until updateEnvSecret has settled.
PushUpsert(p) ==
    /\ proc[p].pc = "upsert"
    /\ \E o \in upsertEnvSecret_update(store, proc[p].call) :
          /\ store' = o.store
          /\ proc' = [proc EXCEPT ![p].pc = "updated",
                                  ![p].steps = Append(@, "upsertEnvSecret"),
                                  ![p].sent = o.sent,
                                  ![p].pending = o.result]
    /\ UNCHANGED ctx
    /\ UNCHANGED <<selVars, guardVars, errVars, xrayVars, fnVars>>

NextPush ==
    \E p \in Procs :
        \/ PushStart(p)
        \/ PushInit(p)
        \/ PushUpsert(p)
        \/ UpsertResume(p)

SpecPush == InitPush /\ [][NextPush]_vars

----------------------------------------------------------------------------
(* The X-Ray gate: one call of shouldEnableXray, of captureAwsSdkV3Client *)
(* or of the constructor of AwsSecretsManagerTools                        *)

Address == Str("127.0.0.1:2000", 1)

ModePool == {Undefined, Str("auto", 1), Str("on", 1), Str("off", 1)}

AddressPool == {Undefined, EmptyStr, Address}

ClientPool == {Client(FALSE), Wrapped(Client(FALSE))}

\* The arguments of the call (mode and daemonAddress undefined when
\* omitted) and the process it is made in.
InitXray ==
    /\ IdleFn
    /\ IdleSelect
    /\ IdleGuard
    /\ IdleErr
    /\ IdleMgr
    /\ IdleCli
    /\ gate \in [pc : {"ready"}, client : ClientPool, mode : ModePool,
                 daemonAddress : AddressPool, envAddress : AddressPool,
                 sdk : SdkStates, enabled : {NoResult},
                 outcome : {NoResult}, imports : {0}]

ShouldEnable ==
    /\ gate.pc = "ready"
    /\ gate' = [gate EXCEPT
                  !.pc = "decided",
                  !.enabled = Bool(shouldEnableXray(gate.mode, gate.daemonAddress))]
    /\ UNCHANGED <<selVars, guardVars, errVars, mgrVars, cliVars, fnVars>>

Capture ==
    /\ gate.pc = "ready"
    /\ LET c == captureAwsSdkV3Client(gate.client, gate.mode,
                    gate.daemonAddress, gate.envAddress, gate.sdk)
       IN  gate' = [gate EXCEPT !.pc = "captured", !.outcome = c.result,
                                !.imports = c.imports]
    /\ UNCHANGED <<selVars, guardVars, errVars, mgrVars, cliVars, fnVars>>

Construct ==
    /\ gate.pc = "ready"
    /\ LET c == construct(gate.mode, gate.envAddress, gate.sdk)
       IN  gate' = [gate EXCEPT !.pc = "constructed", !.outcome = c.result,
                                !.imports = c.imports]
    /\ UNCHANGED <<selVars, guardVars, errVars, mgrVars, cliVars, fnVars>>

NextXray == ShouldEnable \/ Capture \/ Construct

SpecXray == InitXray /\ [][NextXray]_vars

----------------------------------------------------------------------------
(* The X-Ray gate over the requests of one client instance: an            *)
(* AwsSecretsManagerTools or an AwsSecretsManagerClient                    *)

MaxCalls == 2       \* calls followed on one instance of the tools

MaxRuns == 3        \* gate runs followed on one instance

\* this.#client.send of an AwsSecretsManagerClient made without an injected
\* client: captureAwsSdkV3Client(base, { mode: xray, logger }) is awaited
\* before the request goes to the client it returns. outcomes are those of
\* the method with a plain send; a method that threw before its send never
\* reaches the wrapper.
AwsSecretsManagerClient_send(g, st, outcomes) ==
    LET c == captureAwsSdkV3Client(Client(FALSE), g.xray, Undefined,
                                   g.envAddress, g.sdk)
    IN  {IF g.injected \/ o.sent = <<>>
         THEN [outcome |-> o, runs |-> 0, imports |-> 0]
         ELSE [outcome |-> IF c.result.t = "throw"
                           THEN Outcome(st, <<>>, c.result) ELSE o,
               runs |-> 1, imports |-> c.imports] : o \in outcomes}

\* The instances: an AwsSecretsManagerClient (with or without an injected
\* client; its constructor does not run the gate) and the
\* AwsSecretsManagerTools whose construction succeeded, which ran it once.
\* envAddress is AWS_XRAY_DAEMON_ADDRESS as it is now, builtWith what it was
\* at construction; tools is the instance with its public fields.
ClientInstances ==
    {[kind |-> "client", injected |-> i, xray |-> mode, envAddress |-> a,
      builtWith |-> a, sdk |-> sdk, runs |-> 0, imports |-> 0,
      tools |-> NoResult] :
        i \in BOOLEAN, mode \in ModePool \ {Undefined},
        a \in AddressPool, sdk \in SdkStates}

ToolsInstances ==
    {[kind |-> "tools", injected |-> FALSE, xray |-> mode,
      envAddress |-> a, builtWith |-> a, sdk |-> sdk, runs |-> 1,
      imports |-> construct(mode, a, sdk).imports,
      tools |-> construct(mode, a, sdk).result.v] :
        <<mode, a, sdk>> \in
            {x \in ModePool \X AddressPool \X SdkStates :
                construct(x[1], x[2], x[3]).result.t = "return"}}

InitClient ==
    /\ IdleFn
    /\ IdleSelect
    /\ IdleGuard
    /\ IdleErr
    /\ IdleCli
    /\ store \in [StoreIds -> {NoSecret, Secret(Text(<<LBrace, RBrace>>))}]
    /\ proc = [p \in Procs |-> IdleProc]
    /\ gate \in ClientInstances \cup ToolsInstances

\* A method of AwsSecretsManagerClient; putEnvSecret and deleteSecret are
\* updateEnvSecret and deleteSecret of the tools but for the send.
ClientCall(p, op, opts, outcomes) ==
    /\ gate.kind = "client"
    /\ gate.runs < MaxRuns
    /\ proc[p].pc = "idle"
    /\ \E r \in AwsSecretsManagerClient_send(gate, store, outcomes) :
          /\ store' = r.outcome.store
          /\ proc' = [proc EXCEPT ![p] =
                         Done(op, opts, r.outcome.sent, r.outcome.result)]
          /\ gate' = [gate EXCEPT !.runs = @ + r.runs,
                                  !.imports = @ + r.imports]
    /\ UNCHANGED <<selVars, guardVars, errVars, cliVars, fnVars>>

ClientPut(p) ==
    \E opts \in UpdateOpts :
        ClientCall(p, "putEnvSecret", opts, updateEnvSecret(store, opts))

ClientDelete(p) ==
    \E opts \in DeleteOpts :
        ClientCall(p, "deleteSecret", opts, deleteSecret(store, opts))

\* A method of the tools: the request goes to tools.client as it is.
ToolsUpdate(p) == gate.kind = "tools" /\ Update(p)

ToolsDelete(p) == gate.kind = "tools" /\ Delete(p)

\* AWS_XRAY_DAEMON_ADDRESS is set, changed or removed in the process.
SetEnv ==
    /\ \E a \in AddressPool \ {gate.envAddress} :
          gate' = [gate EXCEPT !.envAddress = a]
    /\ UNCHANGED <<selVars, guardVars, errVars, mgrVars, cliVars, fnVars>>

NextClient ==
    \/ SetEnv
    \/ \E p \in Procs :
        \/ ClientPut(p)
        \/ ClientDelete(p)
        \/ ToolsUpdate(p)
        \/ ToolsDelete(p)
        \/ Reset(p)

SpecClient == InitClient /\ [][NextClient]_vars

----------------------------------------------------------------------------
(* One application of matchesFromSelector to any entry and any selector *)

InitMatch ==
    /\ IdleSelect
    /\ IdleGuard
    /\ IdleErr
    /\ IdleMgr
    /\ IdleCli
    /\ IdleXray
    /\ fn \in [pc : {"ready"}, entry : AnyEntry, sel : FromSelectors,
               result : {NoResult}]

Match ==
    /\ fn.pc = "ready"
    /\ fn' = [fn EXCEPT !.pc = "done",
                        !.result = Bool(matchesFromSelector(fn.entry, fn.sel))]
    /\ UNCHANGED <<selVars, guardVars, errVars, mgrVars, cliVars, xrayVars>>

NextMatch == Match

SpecMatch == InitMatch /\ [][NextMatch]_vars

----------------------------------------------------------------------------
(* One application of parseFromSelector or parseToSelector to a text *)

\* Pieces of the texts given to parseFromSelector: the words of the
\* grammar ('config' is a kind and a dynamic source), a word of no closed
\* set, the empty piece, and pieces with blanks.
FromPieces ==
    {Piece(w, FALSE) : w \in {"", "vars", "file", "config", "dynamic",
                              "env", "private", Wild, "nope"}}
    \cup {Piece("", TRUE), Piece("env", TRUE)}

ToPieces ==
    {Piece(w, FALSE) : w \in {"", "env", "global", "private", "public",
                              Wild, "nope"}}
    \cup {Piece("env", TRUE)}

\* raw.split(':') never gives an empty array: the empty text is one
\* empty piece.
TextsOf(pieces) == {RawSelector(ps) : ps \in SeqsUpTo(pieces, MaxPieces) \ {<<>>}}

InitParse ==
    /\ IdleSelect
    /\ IdleGuard
    /\ IdleErr
    /\ IdleMgr
    /\ IdleCli
    /\ IdleXray
    /\ fn \in [pc : {"ready"}, f : {"from"}, raw : TextsOf(FromPieces),
               result : {NoResult}]
              \cup [pc : {"ready"}, f : {"to"}, raw : TextsOf(ToPieces),
                    result : {NoResult}]

ParseFrom ==
    /\ fn.pc = "ready"
    /\ fn.f = "from"
    /\ fn' = [fn EXCEPT !.pc = "done", !.result = parseFromSelector(fn.raw)]
    /\ UNCHANGED <<selVars, guardVars, errVars, mgrVars, cliVars, xrayVars>>

ParseTo ==
    /\ fn.pc = "ready"
    /\ fn.f = "to"
    /\ fn' = [fn EXCEPT !.pc = "done", !.result = parseToSelector(fn.raw)]
    /\ UNCHANGED <<selVars, guardVars, errVars, mgrVars, cliVars, xrayVars>>

NextParse == ParseFrom \/ ParseTo

SpecParse == InitParse /\ [][NextParse]_vars

----------------------------------------------------------------------------
(* An env map through toSecretString and back through parseProcessEnv *)

RoundTripValues ==
    {Undefined, EmptyStr, Str("1", 1), Str("2", 1), Str("<quote>", 1),
     Str("<emoji>", 2)}

\* ProcessEnv: Record<string, string | undefined>
RoundTripMaps == UNION {[ks -> RoundTripValues] : ks \in SUBSET Keys}

InitRoundTrip ==
    /\ IdleSelect
    /\ IdleGuard
    /\ IdleErr
    /\ IdleMgr
    /\ IdleCli
    /\ IdleXray
    /\ fn \in [pc : {"ready"}, m : {MapObj(m) : m \in RoundTripMaps},
               text : {NoResult}, result : {NoResult}]

\* SecretString: toSecretString(opts.value)
Encode ==
    /\ fn.pc = "ready"
    /\ fn' = [fn EXCEPT !.pc = "encoded", !.text = toSecretString(fn.m.map)]
    /\ UNCHANGED <<selVars, guardVars, errVars, mgrVars, cliVars, xrayVars>>

\* parseProcessEnv(res.SecretString)
Decode ==
    /\ fn.pc = "encoded"
    /\ fn' = [fn EXCEPT !.pc = "decoded", !.result = parseProcessEnv(fn.text)]
    /\ UNCHANGED <<selVars, guardVars, errVars, mgrVars, cliVars, xrayVars>>

NextRoundTrip == Encode \/ Decode

SpecRoundTrip == InitRoundTrip /\ [][NextRoundTrip]_vars

----------------------------------------------------------------------------
(* The construction of an AwsSecretsManagerTools or of an                 *)
(* AwsSecretsManagerClient with any logger                                 *)

LoggerPool == {Undefined} \cup {Logger(ms) : ms \in SUBSET LoggerMethods}

InitBuild ==
    /\ IdleSelect
    /\ IdleGuard
    /\ IdleErr
    /\ IdleMgr
    /\ IdleCli
    /\ IdleXray
    /\ fn \in [pc : {"ready"}, logger : LoggerPool, xray : ModePool,
               envAddress : {Undefined, Address}, sdk : {"missing", "ok"},
               injected : BOOLEAN, kind : {"none"}, built : {NoResult}]

NewTools ==
    /\ fn.pc = "ready"
    /\ ~fn.injected
    /\ fn' = [fn EXCEPT !.pc = "done", !.kind = "tools",
                        !.built = newAwsSecretsManagerTools(
                                      fn.logger, fn.xray, fn.envAddress, fn.sdk)]
    /\ UNCHANGED <<selVars, guardVars, errVars, mgrVars, cliVars, xrayVars>>

NewClient ==
    /\ fn.pc = "ready"
    /\ fn' = [fn EXCEPT !.pc = "done", !.kind = "client",
                        !.built = newAwsSecretsManagerClient(
                                      fn.injected, fn.logger, fn.xray)]
    /\ UNCHANGED <<selVars, guardVars, errVars, mgrVars, cliVars, xrayVars>>

NextBuild == NewTools \/ NewClient

SpecBuild == InitBuild /\ [][NextBuild]_vars

----------------------------------------------------------------------------
(* One instance of the tools through several calls, another writer        *)
(* changing the store in between                                           *)

SessionBodies == {NoSecret} \cup {Secret(toSecretString(v)) : v \in EnvPool}

InitSession ==
    /\ IdleSelect
    /\ IdleGuard
    /\ IdleErr
    /\ IdleCli
    /\ IdleXray
    /\ proc = NoResult
    /\ store \in [StoreIds -> SessionBodies]
    /\ fn = [calls |-> <<>>]

\* The calls followed: the current version of one id, or no id at all.
SessionOpts(pool) ==
    {o \in pool : o.secretId \in {Undefined, IdX} /\ o.versionId = Undefined}

\* One awaited call: what the store held for the id when it was made, the
\* requests it sent and its result.
SessionCall(op, opts, outcomes) ==
    /\ Len(fn.calls) < MaxCalls
    /\ \E o \in outcomes :
          /\ store' = o.store
          /\ fn' = [calls |-> Append(fn.calls,
                       [op |-> op, opts |-> opts,
                        held |-> Lookup(store, opts.secretId),
                        sent |-> o.sent, result |-> o.result])]
    /\ UNCHANGED proc
    /\ UNCHANGED <<selVars, guardVars, errVars, cliVars, xrayVars>>

SessionRead ==
    \E opts \in SessionOpts(ReadOpts) :
        SessionCall("read", opts, readEnvSecret(store, opts))

SessionUpdate ==
    \E opts \in SessionOpts(UpdateOpts) :
        SessionCall("update", opts, updateEnvSecret(store, opts))

SessionCreate ==
    \E opts \in {o \in SessionOpts(CreateOpts) :
                      /\ o.description = Undefined
                      /\ o.forceOverwriteReplicaSecret = Undefined} :
        SessionCall("create", opts, createEnvSecret(store, opts))

SessionDelete ==
    \E opts \in {o \in DeleteOpts :
                      /\ o.secretId \in {Undefined, IdX}
                      /\ o.recoveryWindowInDays \in {Undefined, NumV(7)}
                      /\ o.forceDeleteWithoutRecovery \in {Undefined, Bool(TRUE)}} :
        SessionCall("delete", opts, deleteSecret(store, opts))

\* Someone else writes or removes the secret.
OtherWriter ==
    /\ \E id \in StoreIds :
          \E b \in SessionBodies \ {store[id]} :
              store' = [store EXCEPT ![id] = b]
    /\ UNCHANGED <<proc, fn>>
    /\ UNCHANGED <<selVars, guardVars, errVars, cliVars, xrayVars>>

NextSession ==
    \/ SessionRead
    \/ SessionUpdate
    \/ SessionCreate
    \/ SessionDelete
    \/ OtherWriter

SpecSession == InitSession /\ [][NextSession]_vars

----------------------------------------------------------------------------
(* One call of resolveIncludeExclude or of applyIncludeExclude *)

\* A name that is a key of no map.
Nope == Str("NOPE", 1)

ListPool ==
    {Undefined, Arr(<<>>), Arr(<<KeyA>>), Arr(<<KeyB>>), Arr(<<Nope>>),
     Arr(<<KeyA, Nope>>)}

\* Maps of strings over some of the keys, each key with its own value.
FilterEnvs ==
    {[k \in ks |-> IF k = KeyA THEN Str("1", 1) ELSE Str("2", 1)] :
        ks \in SUBSET Keys}

\* The lists of the command line (include, exclude; undefined when the
\* flag is not given), those of the configuration, and the map to narrow.
InitFilter ==
    /\ IdleSelect
    /\ IdleGuard
    /\ IdleErr
    /\ IdleMgr
    /\ IdleCli
    /\ IdleXray
    /\ fn \in [pc : {"ready"}, include : ListPool, exclude : ListPool,
               cfgInclude : ListPool, cfgExclude : ListPool,
               env : {MapObj(e) : e \in FilterEnvs},
               kind : {"none"}, out : {NoResult}]

Resolve ==
    /\ fn.pc = "ready"
    /\ fn' = [fn EXCEPT !.pc = "done", !.kind = "resolve",
                        !.out = resolveIncludeExclude(fn.include, fn.exclude,
                                                      fn.cfgInclude,
                                                      fn.cfgExclude)]
    /\ UNCHANGED <<selVars, guardVars, errVars, mgrVars, cliVars, xrayVars>>

Apply ==
    /\ fn.pc = "ready"
    /\ fn' = [fn EXCEPT !.pc = "done", !.kind = "apply",
                        !.out = Return(MapObj(
                                    applyIncludeExclude(fn.env.map, fn.include,
                                                        fn.exclude)))]
    /\ UNCHANGED <<selVars, guardVars, errVars, mgrVars, cliVars, xrayVars>>

NextFilter ==
    \/ Resolve
    \/ Apply

SpecFilter == InitFilter /\ [][NextFilter]_vars

----------------------------------------------------------------------------
(* Two callers of upsertEnvSecret on a store that holds no secret yet: the *)
(* update and the create of one call are two requests, and the requests    *)
(* of the other caller may reach the store in between.                     *)

RaceProcs == {"p1", "p2"}

InitRace ==
    /\ IdleFn
    /\ IdleSelect
    /\ IdleGuard
    /\ IdleErr
    /\ IdleCli
    /\ IdleXray
    /\ store = [id \in StoreIds |-> NoSecret]
    /\ proc = [p \in RaceProcs |-> IdleProc]

NextRace ==
    \E p \in RaceProcs :
        \/ UpsertStart(p)
        \/ UpsertResume(p)

SpecRace == InitRace /\ [][NextRace]_vars

----------------------------------------------------------------------------
(* Claims about selectEnvByProvenance, checked under SpecSelect *)

LastEntry(k) == provenance[k][Len(provenance[k])]

IsUnset(e) == Has(e, "op") /\ e.op = "unset"

MatchesSome(e) ==
    \E i \in 1..Len(selectors) : matchesFromSelector(e, selectors[i])

\* C1: selectors are matched against the last provenance entry of a key only.
\* For every key whose history has two or more entries and whose last entry
\* matches no selector, the key is not selected, whatever its earlier entries
\* match; and in the scenario A: [file:env:private], B: [file:env:private,
\* dynamic:config] selected by [file:env:private] the result is exactly
\* {A: '1'}.
C1_EffectiveEntryOnly ==
    pc = "done" =>
        /\ \A k \in DOMAIN provenance :
              (Len(provenance[k]) >= 2 /\ ~MatchesSome(LastEntry(k)))
                  => k \notin DOMAIN selected
        /\ ( /\ dotenv = [k \in Keys |-> IF k = KeyA THEN Str("1", 1)
                                                     ELSE Str("2", 1)]
             /\ DOMAIN provenance = Keys
             /\ provenance[KeyA] = <<FileEntry("env", "private")>>
             /\ provenance[KeyB] = <<FileEntry("env", "private"),
                                    DynamicEntry("config")>>
             /\ selectors = <<FileEntry("env", "private")>> )
            => selected = [k \in {KeyA} |-> Str("1", 1)]

\* C1 witness: a finished selection in which a key with a defined value has
\* an earlier entry that matches a selector and a last entry that is not
\* unset and matches none, while another key is selected.
C1_Witness ==
    /\ pc = "done"
    /\ \E k \in DOMAIN provenance :
          /\ Len(provenance[k]) >= 2
          /\ dotenv[k] # Undefined
          /\ MatchesSome(provenance[k][1])
          /\ ~IsUnset(LastEntry(k))
          /\ ~MatchesSome(LastEntry(k))
          /\ k \notin DOMAIN selected
    /\ DOMAIN selected # {}

\* C2 as stated: a key whose history ends in an unset entry is never
\* selected, and a key whose last entry is not unset and matches a selector
\* is selected even when earlier entries carry unset.
C2_Original ==
    pc = "done" =>
        \A k \in DOMAIN provenance :
            /\ (Len(provenance[k]) > 0 /\ IsUnset(LastEntry(k)))
                  => k \notin DOMAIN selected
            /\ ( /\ Len(provenance[k]) > 0
                 /\ ~IsUnset(LastEntry(k))
                 /\ MatchesSome(LastEntry(k)) )
                  => k \in DOMAIN selected

\* C2 (amended): a key whose history ends in an unset entry is never selected,
\* whatever its earlier entries and the selectors; and a key with a defined
\* value whose last entry is not unset and matches a selector is selected,
\* even when earlier entries of its history carry unset.
C2_UnsetOnEffectiveOnly ==
    pc = "done" =>
        \A k \in DOMAIN provenance :
            /\ (Len(provenance[k]) > 0 /\ IsUnset(LastEntry(k)))
                  => k \notin DOMAIN selected
            /\ ( /\ dotenv[k] # Undefined
                 /\ Len(provenance[k]) > 0
                 /\ ~IsUnset(LastEntry(k))
                 /\ MatchesSome(LastEntry(k)) )
                  => k \in DOMAIN selected

\* C2 witness: one key ends in unset after an entry that matches and is left
\* out; another has an unset entry before a matching last entry and is
\* selected.
C2_Witness ==
    /\ pc = "done"
    /\ \E k \in DOMAIN provenance :
          /\ Len(provenance[k]) >= 2
          /\ dotenv[k] # Undefined
          /\ IsUnset(LastEntry(k))
          /\ ~IsUnset(provenance[k][1])
          /\ MatchesSome(provenance[k][1])
          /\ k \notin DOMAIN selected
    /\ \E k \in DOMAIN provenance :
          /\ Len(provenance[k]) >= 2
          /\ IsUnset(provenance[k][1])
          /\ ~IsUnset(LastEntry(k))
          /\ k \in DOMAIN selected

\* C3: every selected key is a key of the provenance history with a
\* non-empty history and a defined value in the value map, and the selected
\* value is that value.
C3_SelectedHaveProvenanceAndValue ==
    pc = "done" =>
        \A k \in DOMAIN selected :
            /\ k \in DOMAIN provenance
            /\ Len(provenance[k]) > 0
            /\ k \in DOMAIN dotenv
            /\ dotenv[k] # Undefined
            /\ selected[k] = dotenv[k]

\* C3 witness: a finished selection that selected a key, left out a key that
\* has a value and no provenance, or left out a key whose last entry matches
\* and whose value is absent.
C3_Witness ==
    /\ pc = "done"
    /\ KeyA \in DOMAIN selected
    /\ \/ KeyB \notin DOMAIN provenance /\ dotenv[KeyB] # Undefined
       \/ /\ KeyB \in DOMAIN provenance
          /\ Len(provenance[KeyB]) > 0
          /\ ~IsUnset(LastEntry(KeyB))
          /\ MatchesSome(LastEntry(KeyB))
          /\ dotenv[KeyB] = Undefined
          /\ KeyB \notin DOMAIN selected

----------------------------------------------------------------------------
(* Claims about the size guard, checked under SpecGuard *)

\* The UTF-8 length of the serialization of an env map, counted entry by
\* entry: two braces, a comma between entries, and for each entry with a
\* defined value the two quoted strings and a colon.
RECURSIVE SerializedBytes(_, _)
SerializedBytes(m, ks) ==
    IF ks = {} THEN 0
    ELSE LET k == CHOOSE x \in ks : TRUE
         IN  (2 + k.n * UnitJsonBytes(k.u)) + 1
             + (2 + m[k].n * UnitJsonBytes(m[k].u))
             + (IF ks = {k} THEN 0 ELSE 1)
             + SerializedBytes(m, ks \ {k})

PayloadBytes(m) ==
    2 + SerializedBytes(m, {k \in DOMAIN m : m[k] # Undefined})

\* C8: the guard accepts every payload whose serialization is at most 65536
\* UTF-8 bytes long, 65536 included, and rejects every payload whose
\* serialization is 65537 bytes or longer with an error that carries the
\* measured byte count.
C8_GuardAtLimit ==
    guardResult # NoResult =>
        /\ PayloadBytes(payload) <= 65536 => guardResult = Return(Undefined)
        /\ PayloadBytes(payload) >= 65537 =>
              /\ guardResult.t = "throw"
              /\ guardResult.err.message.bytes = PayloadBytes(payload)

\* C8 witness: a payload of exactly 65536 bytes was accepted.
C8_Witness ==
    /\ guardResult = Return(Undefined)
    /\ PayloadBytes(payload) = 65536

----------------------------------------------------------------------------
(* Claims about isResourceNotFoundError, checked under SpecErr *)

IsErrorObject(e) == e.t = "error"

\* C5: for every error value, isResourceNotFoundError is true exactly when
\* the error's name or its code (code / Code) equals
\* 'ResourceNotFoundException', and two errors that differ only in message
\* text are classified the same.
C5_ByNameOrCode ==
    classified # NoResult =>
        /\ classified.of <=>
              /\ IsErrorObject(err)
              /\ \/ err.name = ResourceNotFoundException
                 \/ err.code = ResourceNotFoundException
                 \/ err.Code = ResourceNotFoundException
        /\ classified.ofOther = classified.of

\* What the code does: the first of name, code, Code that is neither null
\* nor undefined decides alone, and the message never does.
FirstNonNullishDecides ==
    classified # NoResult =>
        /\ classified.of <=>
              /\ IsErrorObject(err)
              /\ \/ err.name = ResourceNotFoundException
                 \/ /\ Nullish(err.name)
                    /\ err.code = ResourceNotFoundException
                 \/ /\ Nullish(err.name)
                    /\ Nullish(err.code)
                    /\ err.Code = ResourceNotFoundException
        /\ classified.ofOther = classified.of


----------------------------------------------------------------------------
(* Claims about upsertEnvSecret and deleteSecret, checked under             *)
(* SpecLifecycle                                                            *)

\* The requests of a kind among the requests a caller sent.
SentOf(p, cmd) == {i \in 1..Len(proc[p].sent) : proc[p].sent[i].cmd = cmd}

FinishedUpsert(p) == proc[p].pc = "done" /\ proc[p].op = "upsert"

UpdateFailed(p) == proc[p].pending.t = "throw"

\* The update failed and the store named the failure
\* ResourceNotFoundException.
UpdateNotFound(p) ==
    /\ UpdateFailed(p)
    /\ proc[p].pending.err.name = ResourceNotFoundException

\* The other three parts of C4, which hold as stated: the update comes
\* first; any other failure of it propagates with no create; its success
\* returns 'updated' with no create.
UpsertOtherwise(p) ==
    /\ \A i \in SentOf(p, "CreateSecret") :
          i = 2 /\ proc[p].sent[1].cmd = "PutSecretValue"
    /\ Cardinality(SentOf(p, "PutSecretValue")) <= 1
    /\ (UpdateFailed(p) /\ ~UpdateNotFound(p)) =>
          /\ proc[p].result = proc[p].pending
          /\ SentOf(p, "CreateSecret") = {}
    /\ ~UpdateFailed(p) =>
          /\ proc[p].result = Return(Str("updated", 1))
          /\ SentOf(p, "CreateSecret") = {}

\* C4 as stated: when the update fails as not found, upsertEnvSecret issues
\* exactly one create and returns 'created'.
C4_Original ==
    \A p \in Procs :
        FinishedUpsert(p) =>
            /\ UpsertOtherwise(p)
            /\ UpdateNotFound(p) =>
                  /\ Cardinality(SentOf(p, "CreateSecret")) = 1
                  /\ proc[p].result = Return(Str("created", 1))

\* C4 (amended): upsertEnvSecret first attempts the update; when the update
\* fails as not found it issues exactly one create, and returns 'created'
\* when that create succeeds, while a failure of the create propagates; when
\* the update fails with any other error that error propagates and no
\* create is issued; when the update succeeds it returns 'updated' and no
\* create is issued.
C4_CreateOnlyOnNotFound ==
    \A p \in Procs :
        /\ proc[p].pc = "updated" => SentOf(p, "CreateSecret") = {}
        /\ FinishedUpsert(p) =>
            /\ UpsertOtherwise(p)
            /\ UpdateNotFound(p) =>
                  /\ Cardinality(SentOf(p, "CreateSecret")) = 1
                  /\ IF proc[p].sent[2].out.ok
                     THEN proc[p].result = Return(Str("created", 1))
                     ELSE proc[p].result = Throw(proc[p].sent[2].out.err)

\* C4 witness: an upsert whose update failed as not found has created the
\* secret and returned 'created'.
C4_Witness ==
    \E p \in Procs :
        /\ FinishedUpsert(p)
        /\ UpdateNotFound(p)
        /\ Len(proc[p].sent) = 2
        /\ proc[p].sent[2].out.ok
        /\ proc[p].result = Return(Str("created", 1))
        /\ store[proc[p].opts.secretId]
              = Secret(toSecretString(proc[p].opts.value))

FinishedDelete(p) ==
    proc[p].pc = "done" /\ proc[p].op \in {"delete", "deleteCmd"}

\* The caller asked for a deletion without recovery: forceDeleteWithoutRecovery
\* is true, or --force was given.
AskedForce(p) ==
    IF proc[p].op = "delete"
    THEN proc[p].opts.forceDeleteWithoutRecovery = Bool(TRUE)
    ELSE proc[p].opts.force = Bool(TRUE)

\* The caller supplied a recovery window.
SuppliedWindow(p) ==
    IF proc[p].op = "delete"
    THEN proc[p].opts.recoveryWindowInDays # Undefined
    ELSE proc[p].opts.recoveryWindowDays # Undefined

SuppliedForce(p) ==
    IF proc[p].op = "delete"
    THEN proc[p].opts.forceDeleteWithoutRecovery # Undefined
    ELSE proc[p].opts.force = Bool(TRUE)

\* C6: a delete request carries ForceDeleteWithoutRecovery=true only if the
\* caller passed forceDeleteWithoutRecovery=true (--force in the command);
\* with neither option supplied it carries neither ForceDeleteWithoutRecovery
\* nor RecoveryWindowInDays; it carries RecoveryWindowInDays only when the
\* caller supplied a window; and no other operation sends a delete request.
C6_NeverSilentlyIrreversible ==
    \A p \in Procs :
        \A i \in SentOf(p, "DeleteSecret") :
            LET input == proc[p].sent[i].input
            IN  /\ FinishedDelete(p)
                /\ ( /\ Has(input, "ForceDeleteWithoutRecovery")
                     /\ input.ForceDeleteWithoutRecovery = Bool(TRUE) )
                      => AskedForce(p)
                /\ (~SuppliedWindow(p) /\ ~SuppliedForce(p))
                      => DOMAIN input = {"SecretId"}
                /\ Has(input, "RecoveryWindowInDays") => SuppliedWindow(p)

\* C6 witness: a delete with neither option (or the command without --force
\* and without --recovery-window-days) has sent its one request and the
\* secret is gone from the store.
C6_Witness ==
    \E p \in Procs :
        /\ FinishedDelete(p)
        /\ ~SuppliedWindow(p)
        /\ ~SuppliedForce(p)
        /\ Len(proc[p].sent) = 1
        /\ proc[p].result = Return(Undefined)
        /\ store[proc[p].opts.secretId] = NoSecret

\* C7: deleteSecret called with both recoveryWindowInDays and
\* forceDeleteWithoutRecovery supplied, whatever their values, fails with a
\* validation error (the mutual exclusion, or the missing secretId) and sends
\* no request to the store.
C7_BothOptionsRejected ==
    \A p \in Procs :
        ( /\ proc[p].pc = "done"
          /\ proc[p].op = "delete"
          /\ proc[p].opts.recoveryWindowInDays # Undefined
          /\ proc[p].opts.forceDeleteWithoutRecovery # Undefined )
            => /\ proc[p].sent = <<>>
               /\ proc[p].result =
                     IF Falsy(proc[p].opts.secretId)
                     THEN Throw(SecretIdRequired)
                     ELSE Throw(MutuallyExclusive)

\* C7 witness: a delete of an existing secret with a window of 7 days and
\* forceDeleteWithoutRecovery=false failed on the mutual exclusion and left
\* the secret in place.
C7_Witness ==
    \E p \in Procs :
        /\ proc[p].pc = "done"
        /\ proc[p].op = "delete"
        /\ proc[p].opts.secretId = IdX
        /\ proc[p].opts.recoveryWindowInDays = NumV(7)
        /\ proc[p].opts.forceDeleteWithoutRecovery = Bool(FALSE)
        /\ proc[p].result = Throw(MutuallyExclusive)
        /\ store[IdX] # NoSecret


----------------------------------------------------------------------------
(* Claims about readEnvSecret, checked under SpecDecode *)

\* A read that got an answer with a secret in it.
Fetched(p) ==
    /\ proc[p].pc = "done"
    /\ proc[p].op = "read"
    /\ Len(proc[p].sent) = 1
    /\ proc[p].sent[1].out.ok

FetchedBody(p) == proc[p].sent[1].out.res.SecretString

HasStringBody(p) == FetchedBody(p).t = "string"

HasNonEmptyStringBody(p) ==
    HasStringBody(p) /\ FetchedBody(p).toks # <<>>

\* The members of a parsed object whose value is neither a string nor null.
Offending(entries) ==
    {i \in 1..Len(entries) : entries[i].v.t \notin {"string", "null"}}

Min(S) == CHOOSE i \in S : \A j \in S : i <= j

Failure(p, e) == proc[p].result.t = "throw" /\ proc[p].result.err = e

\* What readEnvSecret does with a body that is a text to decode.
DecodedInOrder(p) ==
    LET parsed == JSONparse(FetchedBody(p))
    IN  IF ~parsed.ok THEN Failure(p, InvalidJson)
        ELSE IF parsed.v.t # "object" THEN Failure(p, InvalidShape)
        ELSE LET entries == parsed.v.entries
                 bad == Offending(entries)
             IN  IF bad # {}
                 THEN Failure(p, ValueTypeError(entries[Min(bad)].k))
                 ELSE /\ proc[p].result.t = "return"
                      /\ DOMAIN proc[p].result.v
                            = {entries[i].k : i \in 1..Len(entries)}
                      /\ \A i \in 1..Len(entries) :
                            proc[p].result.v[entries[i].k] =
                                IF entries[i].v = Null THEN Undefined
                                ELSE entries[i].v

\* C10 as stated: the read fails with the missing payload exactly when
\* there is no string body, and decodes every string body in order.
C10_Original ==
    \A p \in Procs :
        Fetched(p) =>
            IF ~HasStringBody(p) THEN Failure(p, MissingPayload)
            ELSE DecodedInOrder(p)

\* C10 (amended): readEnvSecret returns a map exactly when the fetched
\* secret has a non-empty string body that parses as a JSON plain object
\* whose values are all strings or null (strings kept, null decoded to
\* absent); otherwise it fails with exactly one error chosen in this order:
\* missing payload if there is no string body or the body is the empty
\* string, invalid JSON if the body does not parse, invalid shape if the
\* parsed JSON is not a plain object, invalid value type naming the key of
\* the first value that is neither string nor null.
C10_DecodeInOrder ==
    \A p \in Procs :
        Fetched(p) =>
            IF ~HasNonEmptyStringBody(p) THEN Failure(p, MissingPayload)
            ELSE DecodedInOrder(p)

\* C10 witness: a body whose first member is null and whose second is a
\* number was refused naming the key of the number.
C10_Witness ==
    \E p \in Procs :
        /\ Fetched(p)
        /\ FetchedBody(p) =
              JSONstringify(Obj(<<[k |-> KeyB, v |-> Null],
                                  [k |-> KeyA, v |-> Num]>>))
        /\ Failure(p, ValueTypeError(KeyA))


----------------------------------------------------------------------------
(* Claims about the push command, checked under SpecPush *)

Pushing(p) == proc[p].op = "push"

\* The words of the selector grammar.
ValidWords ==
    {<<"vars">>}
    \cup {<<"file", sc, pr>> :
            sc \in {"global", "env", "*"}, pr \in {"public", "private", "*"}}
    \cup {<<"config", cs, sc, pr>> :
            cs \in {"packaged", "project", "*"},
            sc \in {"global", "env", "*"}, pr \in {"public", "private", "*"}}
    \cup {<<"dynamic", ds>> :
            ds \in {"config", "programmatic", "dynamicPath", "*"}}

\* The selector texts in force: --from, else the config's, else the default.
FromInForce(p) ==
    IF proc[p].opts.from # Undefined /\ proc[p].opts.from.items # <<>>
    THEN proc[p].opts.from.items
    ELSE IF proc[p].opts.cfgFrom # Undefined
            /\ proc[p].opts.cfgFrom.items # <<>>
    THEN proc[p].opts.cfgFrom.items
    ELSE <<RawOf(<<"file", "env", "private">>)>>

InvalidFrom(p) ==
    \E i \in 1..Len(FromInForce(p)) :
        parseParts(FromInForce(p)[i]) \notin ValidWords

\* The lists in force: those of the command line if it gives one, else those
\* of the config.
OnCommandLine(p) ==
    proc[p].opts.include # Undefined \/ proc[p].opts.exclude # Undefined

ListInForce(cli, cfg, onCli) ==
    IF onCli THEN (IF cli = Undefined THEN {} ELSE ItemsOf(cli))
    ELSE IF cfg = Undefined THEN {} ELSE ItemsOf(cfg)

IncludeInForce(p) ==
    ListInForce(proc[p].opts.include, proc[p].opts.cfgInclude,
                OnCommandLine(p))

ExcludeInForce(p) ==
    ListInForce(proc[p].opts.exclude, proc[p].opts.cfgExclude,
                OnCommandLine(p))

Conflict(p) == IncludeInForce(p) # {} /\ ExcludeInForce(p) # {}

MissingProvenance == ctx.dotenvProvenance = Undefined

\* The keys push is to write: selected by provenance, then filtered.
ExpectedKeys(p) ==
    LET prov == ctx.dotenvProvenance.map
        sels == FromInForce(p)
    IN  {k \in DOMAIN prov :
            /\ k \in DOMAIN ctx.dotenv
            /\ ctx.dotenv[k] # Undefined
            /\ Len(prov[k]) > 0
            /\ ~IsUnset(prov[k][Len(prov[k])])
            /\ \E i \in 1..Len(sels) :
                  matchesFromSelector(prov[k][Len(prov[k])],
                                      parseFromSelector(sels[i]).v)
            /\ k \notin ExcludeInForce(p)
            /\ IncludeInForce(p) # {} => k \in IncludeInForce(p)}

Oversized(p) ==
    /\ ~InvalidFrom(p)
    /\ ~Conflict(p)
    /\ ~MissingProvenance
    /\ 2 + SerializedBytes(ctx.dotenv, ExpectedKeys(p)) > 65536

\* The place of a step among the steps a caller took, 0 if it did not.
StepAt(p, step) ==
    IF \E i \in 1..Len(proc[p].steps) : proc[p].steps[i] = step
    THEN CHOOSE i \in 1..Len(proc[p].steps) : proc[p].steps[i] = step
    ELSE 0

\* C9: no request carries a text of more than 65536 UTF-8 bytes; the size
\* guard runs after the provenance selection and after the include/exclude
\* filtering and before the tools are made and upsertEnvSecret is called; and
\* an oversized payload, an invalid --from selector, missing provenance or
\* an include/exclude conflict each end push in a failure with no request to
\* the store and no tools made.
C9_GuardBeforeAnyWrite ==
    \A p \in Procs :
        Pushing(p) =>
            /\ \A i \in 1..Len(proc[p].sent) :
                  byteLength(proc[p].sent[i].input.SecretString) <= 65536
            /\ (proc[p].tools # NoResult \/ proc[p].sent # <<>>
                \/ StepAt(p, "init") > 0) =>
                  /\ 0 < StepAt(p, "selectEnvByProvenance")
                  /\ StepAt(p, "selectEnvByProvenance")
                        < StepAt(p, "applyIncludeExclude")
                  /\ StepAt(p, "applyIncludeExclude")
                        < StepAt(p, "assertBytesWithinSecretsManagerLimit")
                  /\ StepAt(p, "assertBytesWithinSecretsManagerLimit")
                        < StepAt(p, "init")
            /\ proc[p].sent # <<>> =>
                  /\ proc[p].tools # NoResult
                  /\ StepAt(p, "init") < StepAt(p, "upsertEnvSecret")
            /\ (InvalidFrom(p) \/ Conflict(p) \/ MissingProvenance
                \/ Oversized(p)) =>
                  /\ proc[p].pc = "done"
                  /\ proc[p].result.t = "throw"
                  /\ proc[p].sent = <<>>
                  /\ proc[p].tools = NoResult
                  /\ StepAt(p, "init") = 0

\* C9 witness: a push whose filtered selection serializes to more than
\* 65536 bytes was ended by the guard, its last step, with no request sent.
C9_Witness ==
    \E p \in Procs :
        /\ Pushing(p)
        /\ Oversized(p)
        /\ proc[p].pc = "done"
        /\ proc[p].steps[Len(proc[p].steps)]
              = "assertBytesWithinSecretsManagerLimit"
        /\ proc[p].result.t = "throw"
        /\ Has(proc[p].result.err.message, "bytes")
        /\ proc[p].result.err.message.bytes > 65536
        /\ proc[p].sent = <<>>


----------------------------------------------------------------------------
(* Claims about argument validation, checked under SpecLifecycle *)

InMethod(p) ==
    proc[p].op \in {"read", "update", "create", "upsert", "delete"}

\* The secret id a request names.
RequestId(r) == IF r.cmd = "CreateSecret" THEN r.input.Name
                ELSE r.input.SecretId

\* C11: read, update, create, upsert and delete called with an empty or
\* missing secretId fail with the validation error 'secretId is required'
\* and send no request; and validation precedes the first request: every
\* request that was sent names a non-empty secret id, and a delete request
\* was sent only when at most one of the two delete options was supplied.
C11_ValidationBeforeAnyRequest ==
    \A p \in Procs :
        InMethod(p) =>
            /\ Falsy(proc[p].opts.secretId) =>
                  /\ proc[p].sent = <<>>
                  /\ proc[p].pc = "done" =>
                        proc[p].result = Throw(SecretIdRequired)
                  /\ proc[p].pc = "updated" =>
                        proc[p].pending = Throw(SecretIdRequired)
            /\ \A i \in 1..Len(proc[p].sent) :
                  /\ ~Falsy(RequestId(proc[p].sent[i]))
                  /\ proc[p].op = "delete" =>
                        \/ proc[p].opts.recoveryWindowInDays = Undefined
                        \/ proc[p].opts.forceDeleteWithoutRecovery = Undefined

\* C11 witness: an upsert without a secretId has ended in the validation
\* error with nothing sent, on a store that holds a secret.
C11_Witness ==
    \E p \in Procs :
        /\ proc[p].pc = "done"
        /\ proc[p].op = "upsert"
        /\ proc[p].opts.secretId = Undefined
        /\ proc[p].result = Throw(SecretIdRequired)
        /\ proc[p].sent = <<>>
        /\ store[IdX] # NoSecret


----------------------------------------------------------------------------
(* Claims about the X-Ray gate, checked under SpecXray *)

IsNonEmptyString(v) == v.t = "string" /\ ~IsEmptyString(v)

\* The mode and the address a call of captureAwsSdkV3Client works with.
ModeInForce == IF gate.mode = Undefined THEN Str("auto", 1) ELSE gate.mode

AddressInForce ==
    IF gate.daemonAddress = Undefined THEN gate.envAddress
    ELSE gate.daemonAddress

ResolvedDisabled(mode, address) ==
    \/ mode = Str("off", 1)
    \/ mode \in {Undefined, Str("auto", 1)} /\ ~IsNonEmptyString(address)

\* C15: shouldEnableXray(mode, daemonAddress) is false for mode off and
\* true for mode on whatever the address, and for mode auto or an omitted
\* mode true exactly when the address is a non-empty string; nothing else
\* of the process (its environment, the SDK) changes the result.
C15_DecisionTable ==
    gate.pc = "decided" =>
        gate.enabled =
            Bool(CASE gate.mode = Str("off", 1) -> FALSE
                   [] gate.mode = Str("on", 1) -> TRUE
                   [] OTHER -> IsNonEmptyString(gate.daemonAddress))

C15_Witness ==
    /\ gate.pc = "decided"
    /\ gate.mode = Undefined
    /\ gate.daemonAddress = Address
    /\ gate.envAddress = Undefined
    /\ gate.enabled = Bool(TRUE)

\* C12: when tracing is resolved as disabled (mode off, or mode auto with
\* no daemon address), captureAwsSdkV3Client returns the client it was
\* given and never evaluates the import of aws-xray-sdk, and the
\* constructor of AwsSecretsManagerTools keeps the base client as
\* tools.client.
C12_DisabledIsUntouched ==
    /\ gate.pc = "captured" /\ ResolvedDisabled(ModeInForce, AddressInForce) =>
          /\ gate.outcome = Return(gate.client)
          /\ gate.imports = 0
    /\ gate.pc = "constructed" /\ ResolvedDisabled(gate.mode, gate.envAddress) =>
          /\ gate.outcome.t = "return"
          /\ gate.outcome.v.client = Client(FALSE)
          /\ gate.outcome.v.xray.enabled = FALSE
          /\ gate.imports = 0

C12_Witness ==
    /\ gate.pc = "captured"
    /\ gate.mode = Str("auto", 1)
    /\ gate.daemonAddress = EmptyStr
    /\ gate.envAddress = Address
    /\ gate.sdk = "missing"
    /\ gate.client = Wrapped(Client(FALSE))
    /\ gate.outcome = Return(gate.client)
    /\ gate.imports = 0

\* C13 as stated: resolved as enabled, captureAwsSdkV3Client fails with
\* the daemon-address error before any import when the address is absent
\* or empty; otherwise it imports, fails with the not-installed error when
\* the import fails and returns the wrapped client when the import
\* succeeds.
C13_Original ==
    gate.pc = "captured" /\ ~ResolvedDisabled(ModeInForce, AddressInForce) =>
        IF ~IsNonEmptyString(AddressInForce)
        THEN gate.outcome = Throw(XrayAddressMissing) /\ gate.imports = 0
        ELSE /\ gate.imports = 1
             /\ gate.outcome = IF gate.sdk = "missing"
                               THEN Throw(XrayNotInstalled)
                               ELSE Return(Wrapped(gate.client))

\* C13: resolved as enabled, captureAwsSdkV3Client fails with the
\* daemon-address error before any import when the address is absent or
\* empty; otherwise it imports once, fails with the not-installed error
\* when the import fails, fails with the missing-export error when the
\* imported module has no captureAWSv3Client function, and returns the
\* wrapped client in the remaining case.
C13_EnabledCapture ==
    gate.pc = "captured" /\ ~ResolvedDisabled(ModeInForce, AddressInForce) =>
        IF ~IsNonEmptyString(AddressInForce)
        THEN gate.outcome = Throw(XrayAddressMissing) /\ gate.imports = 0
        ELSE /\ gate.imports = 1
             /\ gate.outcome = CASE gate.sdk = "missing" -> Throw(XrayNotInstalled)
                                 [] gate.sdk = "noExport" -> Throw(XrayNoExport)
                                 [] OTHER -> Return(Wrapped(gate.client))
             /\ XrayNotInstalled # XrayAddressMissing
             /\ XrayNotInstalled # XrayNoExport

C13_Witness ==
    /\ gate.pc = "captured"
    /\ gate.mode = Str("on", 1)
    /\ gate.daemonAddress = Undefined
    /\ gate.envAddress = Undefined
    /\ gate.sdk = "ok"
    /\ gate.outcome = Throw(XrayAddressMissing)
    /\ gate.imports = 0


----------------------------------------------------------------------------
(* Claims about the gate over the life of an instance, under SpecClient *)

\* C14: the tracing gate runs at most once per constructed client: over
\* any sequence of operations on one instance the decision and the
\* load-and-wrap step are performed no more than once, at construction,
\* and not again on a store request.
C14_GateOncePerClient == gate.runs <= 1 /\ gate.imports <= 1

\* What the code keeps: the tools never run the gate after construction.
GateOncePerTools ==
    gate.kind = "tools" => gate.runs = 1 /\ gate.imports <= 1


----------------------------------------------------------------------------
(* Claims about matchesFromSelector, checked under SpecMatch *)

\* The fields a selector constrains.
SelectorFields(sel) == DOMAIN sel \ {"kind"}

\* C16: a from-selector matches an entry only if both have the same kind
\* and every field of the entry equals the selector's field or the
\* selector's field is the wildcard; file:*:* matches exactly the
\* file-kind entries, file:env:private exactly the file entries with
\* scope env and privacy private, and vars exactly the vars entries.
C16_MatchByKindAndFields ==
    fn.pc = "done" =>
        /\ fn.result = Bool(TRUE) =>
              /\ fn.entry.kind = fn.sel.kind
              /\ \A f \in SelectorFields(fn.sel) :
                    fn.sel[f] = Wild \/ fn.entry[f] = fn.sel[f]
        /\ fn.sel = FileEntry(Wild, Wild) =>
              fn.result = Bool(fn.entry.kind = "file")
        /\ fn.sel = FileEntry("env", "private") =>
              fn.result = Bool(/\ fn.entry.kind = "file"
                               /\ fn.entry.scope = "env"
                               /\ fn.entry.privacy = "private")
        /\ fn.sel = VarsEntry => fn.result = Bool(fn.entry.kind = "vars")

C16_Witness ==
    /\ fn.pc = "done"
    /\ fn.sel = FileEntry(Wild, Wild)
    /\ fn.entry = Unset(FileEntry("global", "public"))
    /\ fn.result = Bool(TRUE)


----------------------------------------------------------------------------
(* Selectors as a set, checked under SpecSelect *)

\* A key that has a value, a history and no unset marker on its last entry.
Eligible(k) ==
    /\ dotenv[k] # Undefined
    /\ Len(provenance[k]) > 0
    /\ ~(Has(LastEntry(k), "op") /\ LastEntry(k).op = "unset")

SelectedBy(sels) == DOMAIN selectEnvByProvenance(dotenv, provenance, sels)

\* C17: selectors combine by OR: an eligible key is selected exactly when
\* its effective entry matches at least one selector, so the selection for
\* a list of selectors is the union of the selections of any two parts of
\* it, and the empty list selects nothing.
C17_SelectorsCombineByOr ==
    pc = "done" =>
        /\ \A k \in DOMAIN provenance :
              Eligible(k) =>
                  (k \in DOMAIN selected <=>
                      \E i \in 1..Len(selectors) :
                          matchesFromSelector(LastEntry(k), selectors[i]))
        /\ \A i \in 0..Len(selectors) :
              DOMAIN selected =
                  SelectedBy(SubSeq(selectors, 1, i))
                  \cup SelectedBy(SubSeq(selectors, i + 1, Len(selectors)))
        /\ \A k \in DOMAIN selected : selected[k] = dotenv[k]
        /\ selectors = <<>> => DOMAIN selected = {}

C17_Witness ==
    /\ pc = "done"
    /\ Len(selectors) = 2
    /\ \E k1, k2 \in DOMAIN selected :
          /\ matchesFromSelector(LastEntry(k1), selectors[1])
          /\ ~matchesFromSelector(LastEntry(k1), selectors[2])
          /\ matchesFromSelector(LastEntry(k2), selectors[2])
          /\ ~matchesFromSelector(LastEntry(k2), selectors[1])


----------------------------------------------------------------------------
(* Claims about the selector parsers, checked under SpecParse *)

WordsOf(raw) == [i \in 1..Len(raw.pieces) |-> raw.pieces[i].w]

\* The text has no blank and no empty piece: it is its words joined by colons.
Plain(raw) ==
    \A i \in 1..Len(raw.pieces) :
        ~raw.pieces[i].blanks /\ raw.pieces[i].w # ""

FromShapes ==
    {<<"vars">>}
    \cup {<<"file", s, p>> : s \in Scopes \cup {Wild}, p \in Privacies \cup {Wild}}
    \cup {<<"config", c, sp[1], sp[2]>> :
            c \in ConfigScopes \cup {Wild},
            sp \in (Scopes \cup {Wild}) \X (Privacies \cup {Wild})}
    \cup {<<"dynamic", d>> : d \in DynamicSources \cup {Wild}}

\* C18: parseFromSelector succeeds only on texts of exactly the shapes
\* file:<scope>:<privacy>, config:<configScope>:<scope>:<privacy>,
\* dynamic:<source> and vars with every token of its closed set; every
\* other text fails, texts with partial, empty or extra colon-separated
\* segments included ('vars:', 'file::env:private', 'file:env:private:').
C18_ExactShapesOnly ==
    fn.pc = "done" /\ fn.f = "from" =>
        /\ fn.result.t = "return" =>
              Plain(fn.raw) /\ WordsOf(fn.raw) \in FromShapes
        /\ fn.result.t = "throw" => fn.result = Throw(InvalidFromSelector(fn.raw))

\* What the code keeps: the text is accepted exactly when its non-empty
\* trimmed pieces make one of the shapes.
AcceptsTrimmedNonEmptyPieces ==
    fn.pc = "done" /\ fn.f = "from" =>
        (fn.result.t = "return" <=>
            SelectSeq(WordsOf(fn.raw), IsNotEmpty) \in FromShapes)

\* The tokens of a text: its pieces without the blanks around them, the
\* empty ones left out.
Tokens(raw) == SelectSeq(WordsOf(raw), IsNotEmpty)

HasWild(raw) == \E i \in 1..Len(raw.pieces) : raw.pieces[i].w = Wild

----------------------------------------------------------------------------
(* Claims about the encoding of env maps, checked under SpecRoundTrip *)

NullsIn(text) == Len(SelectSeq(text.toks, LAMBDA tok : tok = NullTok))

AbsentIn(m) == Cardinality({k \in DOMAIN m : m[k] = Undefined})

\* C20: encoding and decoding an env map round-trips: for every map m
\* whose values are strings or absent, decoding the serialized form of m
\* reproduces m, each absent value being written as JSON null and decoded
\* back to absent, so the key set of the result is the key set of m.
C20_RoundTrip ==
    /\ fn.pc \in {"encoded", "decoded"} =>
          NullsIn(fn.text) = AbsentIn(fn.m.map)
    /\ fn.pc = "decoded" =>
          /\ fn.result.t = "return"
          /\ DOMAIN fn.result.v = DOMAIN fn.m.map
          /\ \A k \in DOMAIN fn.m.map : fn.result.v[k] = fn.m.map[k]

\* What the code keeps: the keys that have a string value, with their
\* values; no null is ever written.
RoundTripKeepsStrings ==
    /\ fn.pc \in {"encoded", "decoded"} => NullsIn(fn.text) = 0
    /\ fn.pc = "decoded" =>
          /\ fn.result.t = "return"
          /\ DOMAIN fn.result.v =
                {k \in DOMAIN fn.m.map : fn.m.map[k] # Undefined}
          /\ \A k \in DOMAIN fn.result.v : fn.result.v[k] = fn.m.map[k]


----------------------------------------------------------------------------
(* Claims about construction, checked under SpecBuild *)

\* The logger the constructor works with.
LoggerInForce == IF fn.logger = Undefined THEN Console ELSE fn.logger

LoggerRefused ==
    /\ fn.built.result.t = "throw"
    /\ fn.built.steps = <<"assertLogger">>

\* C21: construction validates the logger once, before the store client is
\* built or the capture attempted: it throws as soon as one of debug, info,
\* warn, error is missing or not a function, and never substitutes a
\* missing method.
C21_LoggerValidatedUpFront ==
    fn.pc = "done" =>
        /\ fn.built.steps[1] = "assertLogger"
        /\ LoggerInForce.methods # LoggerMethods <=> LoggerRefused
        /\ fn.built.result.t = "return" =>
              fn.built.result.v.logger = LoggerInForce

\* What the code keeps: the tools ask for the four methods, the client
\* for debug, info and error only.
LoggerValidatedPerClass ==
    fn.pc = "done" =>
        /\ fn.built.steps[1] = "assertLogger"
        /\ LoggerRefused <=>
              \E f \in (IF fn.kind = "tools" THEN LoggerMethods
                        ELSE {"debug", "info", "error"}) :
                  f \notin LoggerInForce.methods
        /\ fn.built.result.t = "return" =>
              fn.built.result.v.logger = LoggerInForce


----------------------------------------------------------------------------
(* The X-Ray state of the tools, checked under SpecClient *)

\* C22: the X-Ray state of an AwsSecretsManagerTools is computed once at
\* construction and never changes: enabled is the decision for the mode
\* and the daemon address read at construction, daemonAddress is present
\* exactly when enabled with a non-empty address, tools.client is the
\* captured client exactly when enabled, and neither an operation nor a
\* later change of the environment variable alters any of them.
C22_XrayStateFixedAtConstruction ==
    gate.kind = "tools" =>
        LET x == gate.tools.xray
            mode == IF gate.xray = Undefined THEN Str("auto", 1) ELSE gate.xray
        IN  /\ x.mode = mode
            /\ x.enabled = (\/ mode = Str("on", 1)
                            \/ mode = Str("auto", 1)
                               /\ IsNonEmptyString(gate.builtWith))
            /\ "daemonAddress" \in DOMAIN x <=>
                  x.enabled /\ IsNonEmptyString(gate.builtWith)
            /\ "daemonAddress" \in DOMAIN x => x.daemonAddress = gate.builtWith
            /\ gate.tools.client =
                  IF x.enabled THEN Wrapped(Client(FALSE)) ELSE Client(FALSE)

C22_Witness ==
    /\ gate.kind = "tools"
    /\ gate.xray = Undefined
    /\ gate.builtWith = Address
    /\ gate.envAddress = Undefined
    /\ gate.tools.xray.enabled
    /\ gate.tools.client = Wrapped(Client(FALSE))
    /\ \E p \in Procs : proc[p].pc = "done" /\ Len(proc[p].sent) = 1


----------------------------------------------------------------------------
(* Requests per operation, checked under SpecLifecycle *)

Requests(p) == proc[p].sent

RefusedAt(p, i) == ~Requests(p)[i].out.ok

\* C23: no operation retries a store request: after a store request fails,
\* read, update, create and delete send no further request and surface
\* that error unmodified; upsert sends a further request only after an
\* update refused as resource-not-found (one create), and an error of that
\* create is surfaced unmodified with no further request.
C23_NoRetry ==
    \A p \in Procs :
        /\ proc[p].op \in {"read", "update", "create", "delete"} =>
              /\ Len(Requests(p)) <= 1
              /\ Len(Requests(p)) = 1 /\ RefusedAt(p, 1) =>
                    proc[p].result = Throw(Requests(p)[1].out.err)
        /\ proc[p].op = "upsert" =>
              /\ Len(Requests(p)) <= 2
              /\ proc[p].pc = "updated" => Len(Requests(p)) <= 1
              /\ Len(Requests(p)) = 2 =>
                    /\ Requests(p)[1].cmd = "PutSecretValue"
                    /\ RefusedAt(p, 1)
                    /\ isResourceNotFoundError(Requests(p)[1].out.err)
                    /\ Requests(p)[2].cmd = "CreateSecret"
                    /\ RefusedAt(p, 2) =>
                          proc[p].result = Throw(Requests(p)[2].out.err)
              /\ proc[p].pc = "done" /\ Len(Requests(p)) = 1
                 /\ RefusedAt(p, 1) =>
                    /\ ~isResourceNotFoundError(Requests(p)[1].out.err)
                    /\ proc[p].result = Throw(Requests(p)[1].out.err)

C23_Witness ==
    \E p \in Procs :
        /\ proc[p].pc = "done"
        /\ proc[p].op = "upsert"
        /\ Len(Requests(p)) = 2
        /\ RefusedAt(p, 2)
        /\ proc[p].result = Throw(Requests(p)[2].out.err)
        /\ store[proc[p].opts.secretId] = NoSecret


\* C24: updateEnvSecret never creates a secret: it sends exactly one
\* put-value request for the given id and no create request, and when the
\* store reports that the secret does not exist the not-found error
\* propagates with the store left without that secret.
C24_UpdateNeverCreates ==
    \A p \in Procs :
        proc[p].op = "update" /\ ~Falsy(proc[p].opts.secretId) =>
            /\ Len(Requests(p)) = 1
            /\ Requests(p)[1].cmd = "PutSecretValue"
            /\ Requests(p)[1].input.SecretId = proc[p].opts.secretId
            /\ SentOf(p, "CreateSecret") = {}
            /\ RefusedAt(p, 1) /\ Requests(p)[1].out.err = NotFound =>
                  /\ proc[p].result = Throw(NotFound)
                  /\ store[proc[p].opts.secretId] = NoSecret

C24_Witness ==
    \E p \in Procs :
        /\ proc[p].op = "update"
        /\ proc[p].pc = "done"
        /\ Len(Requests(p)) = 1
        /\ Requests(p)[1].out.ok = FALSE
        /\ Requests(p)[1].out.err = NotFound
        /\ proc[p].result = Throw(NotFound)
        /\ store[proc[p].opts.secretId] = NoSecret


----------------------------------------------------------------------------
(* Claims about one instance over several calls, checked under SpecSession *)

PassedValidation(c) ==
    /\ ~Falsy(c.opts.secretId)
    /\ c.op = "delete" =>
          \/ c.opts.recoveryWindowInDays = Undefined
          \/ c.opts.forceDeleteWithoutRecovery = Undefined

\* C25: the manager keeps no secret state between calls: each read,
\* update, create and delete that passes validation issues exactly one
\* store request, every read fetches again (two reads, two requests), and
\* a read that follows an update or a create of the same id returns what
\* the store holds when it is made, never a value the manager remembers.
C25_NoSecretStateBetweenCalls ==
    \A i \in 1..Len(fn.calls) :
        LET c == fn.calls[i]
        IN  /\ PassedValidation(c) => Len(c.sent) = 1
            /\ ~PassedValidation(c) => c.sent = <<>>
            /\ c.op = "read" /\ PassedValidation(c) /\ c.sent[1].out.ok =>
                  /\ c.held # NoSecret
                  /\ c.sent[1].out.res.SecretString = c.held.SecretString
                  /\ c.result = IF Falsy(c.held.SecretString)
                                THEN Throw(MissingPayload)
                                ELSE parseProcessEnv(c.held.SecretString)

\* An update of one value, another writer's change, then a read that
\* returns the other writer's value.
C25_Witness ==
    /\ Len(fn.calls) = 2
    /\ fn.calls[1].op = "update"
    /\ fn.calls[1].result = Return(Undefined)
    /\ fn.calls[2].op = "read"
    /\ fn.calls[2].opts.secretId = fn.calls[1].opts.secretId
    /\ fn.calls[2].result.t = "return"
    /\ fn.calls[2].held # Secret(toSecretString(fn.calls[1].opts.value))
    /\ Len(fn.calls[1].sent) + Len(fn.calls[2].sent) = 2


----------------------------------------------------------------------------
(* Claims about what is written back, checked under SpecPush *)

\* The keys that have an entry in a serialized object.
KeysWritten(body) ==
    {body.toks[j].s : j \in {i \in 1..(Len(body.toks) - 1) :
                                /\ body.toks[i].tok = "string"
                                /\ body.toks[i + 1] = Colon}}

AbsentKeys(m) == {k \in DOMAIN m : m[k] = Undefined}

Bodies(p) ==
    {Requests(p)[i].input.SecretString :
        i \in {j \in 1..Len(Requests(p)) :
                  "SecretString" \in DOMAIN Requests(p)[j].input}}

SerializedOmitsAbsent ==
    \A p \in Procs :
        proc[p].op \in {"update", "create", "upsert"} =>
            \A body \in Bodies(p) :
                KeysWritten(body) =
                    DOMAIN proc[p].opts.value \ AbsentKeys(proc[p].opts.value)

SerializedOmitsAbsent_Witness ==
    \E p \in Procs :
        /\ proc[p].op = "update"
        /\ Bodies(p) # {}
        /\ AbsentKeys(proc[p].opts.value) # {}


----------------------------------------------------------------------------
(* Claims about the include and exclude lists, checked under SpecFilter *)

Given(list) == list # Undefined

\* C27: resolveIncludeExclude lets the command line override the
\* configuration entirely: when include or exclude is given on the command
\* line the result holds the lists of the command line and neither list of
\* the configuration; otherwise it holds the lists of the configuration;
\* it throws the mutual-exclusion error exactly when the resolved lists
\* are both non-empty, so a returned result never has both non-empty.
C27_CliOverridesConfig ==
    fn.pc = "done" /\ fn.kind = "resolve" =>
        LET cli == Given(fn.include) \/ Given(fn.exclude)
            include == IF cli THEN fn.include ELSE fn.cfgInclude
            exclude == IF cli THEN fn.exclude ELSE fn.cfgExclude
        IN  /\ fn.out.t = "throw" <=> HasLength(include) /\ HasLength(exclude)
            /\ fn.out.t = "throw" => fn.out.err = IncludeExcludeConflict
            /\ fn.out.t = "return" =>
                  /\ fn.out.v.include = include
                  /\ fn.out.v.exclude = exclude
                  /\ ~(HasLength(fn.out.v.include) /\ HasLength(fn.out.v.exclude))

\* Only exclude is given on the command line, the configuration has a
\* non-empty include list, and the result has no include list.
C27_Witness ==
    /\ fn.pc = "done" /\ fn.kind = "resolve"
    /\ ~Given(fn.include) /\ HasLength(fn.exclude)
    /\ HasLength(fn.cfgInclude)
    /\ fn.out.t = "return"
    /\ fn.out.v.include = Undefined
    /\ fn.out.v.exclude = fn.exclude

\* C28: applyIncludeExclude only narrows: the result is a sub-map of the
\* input (same values, no new key); a name in include or exclude that is
\* not a key of the input is ignored without error; with a non-empty
\* exclude list the excluded keys are absent from the result, and with a
\* non-empty include list only included keys remain.
C28_OnlyNarrows ==
    fn.pc = "done" /\ fn.kind = "apply" =>
        /\ fn.out.t = "return"
        /\ LET env == fn.env.map
               out == fn.out.v.map
           IN  /\ DOMAIN out \subseteq DOMAIN env
               /\ \A k \in DOMAIN out : out[k] = env[k]
               /\ HasLength(fn.exclude) =>
                     DOMAIN out \cap ItemsOf(fn.exclude) = {}
               /\ HasLength(fn.include) =>
                     DOMAIN out \subseteq ItemsOf(fn.include)
               /\ \A k \in DOMAIN env :
                     /\ HasLength(fn.exclude) => k \notin ItemsOf(fn.exclude)
                     /\ HasLength(fn.include) => k \in ItemsOf(fn.include)
                     => k \in DOMAIN out

\* Both lists non-empty, include naming a key the input does not have, and
\* a key of the input left in the result.
C28_Witness ==
    /\ fn.pc = "done" /\ fn.kind = "apply"
    /\ HasLength(fn.include) /\ HasLength(fn.exclude)
    /\ ItemsOf(fn.include) \ DOMAIN fn.env.map # {}
    /\ DOMAIN fn.out.v.map # {}
    /\ DOMAIN fn.out.v.map # DOMAIN fn.env.map


----------------------------------------------------------------------------
(* The frame of the selection, checked under SpecSelect *)

InputsKept ==
    /\ dotenv' = dotenv
    /\ provenance' = provenance
    /\ selectors' = selectors

----------------------------------------------------------------------------
(* Claims about interleaved upserts, checked under SpecRace *)

\* The update of the caller failed and upsertEnvSecret took the failure for
\* not found.
ObservedNotFound(p) ==
    /\ proc[p].op = "upsert"
    /\ proc[p].pending.t = "throw"
    /\ isResourceNotFoundError(proc[p].pending.err)

Returned(p, what) == proc[p].result = Return(Str(what, 1))

SameId == \A p, q \in RaceProcs : proc[p].opts = NoResult
                                  \/ proc[q].opts = NoResult
                                  \/ proc[p].opts.secretId = proc[q].opts.secretId

\* C30: upsertEnvSecret is not atomic: of two upserts of one id that does
\* not exist yet, each of which observed not-found on its update, each
\* issues a create; the one whose create the store rejects surfaces the
\* error of the create and sends no update again; so none of them returns
\* 'updated', and whatever the interleaving at most one returns 'created'.
C30_InterleavedUpserts ==
    SameId =>
        /\ Cardinality({p \in RaceProcs : Returned(p, "created")}) <= 1
        /\ (\A p \in RaceProcs : ObservedNotFound(p)) =>
              \A p \in RaceProcs :
                  /\ ~Returned(p, "updated")
                  /\ proc[p].pc = "done" =>
                        /\ Len(Requests(p)) = 2
                        /\ Requests(p)[1].cmd = "PutSecretValue"
                        /\ Requests(p)[2].cmd = "CreateSecret"
                        /\ RefusedAt(p, 2) =>
                              proc[p].result = Throw(Requests(p)[2].out.err)
                        /\ ~RefusedAt(p, 2) => Returned(p, "created")

\* Both updates were answered not found before either create; one create
\* succeeded and the other was rejected because the secret exists.
C30_Witness ==
    /\ proc["p1"].pc = "done" /\ proc["p2"].pc = "done"
    /\ proc["p1"].opts.secretId = IdX /\ proc["p2"].opts.secretId = IdX
    /\ proc["p1"].pending = Throw(NotFound)
    /\ proc["p2"].pending = Throw(NotFound)
    /\ Returned("p1", "created")
    /\ proc["p2"].result = Throw(Exists)
    /\ store[IdX] = Secret(toSecretString(proc["p1"].opts.value))

=============================================================================
